---- MODULE Spec2Model ----
(***************************************************************************)
(* Bonafide (src/bonafide.py): an ordered key-value store over SQLite, the *)
(* order-preserving tuple codec, the nstore relation store built on it,    *)
(* and the worker pool behind apply().                                     *)
(*                                                                         *)
(* The specifications of this module:                                      *)
(*   Spec        the worker pool: apply(), the worker threads, the         *)
(*               transactional wrapper and the SQLite connections;         *)
(*   SpecApply   the same pool running functions that make no library      *)
(*               call;                                                     *)
(*   SpecLive    the same pool under fair scheduling, running functions    *)
(*               that return, raise an Exception or raise SystemExit;      *)
(*   SpecTxn     the same pool running a transactional function that reads *)
(*               back its own writes;                                      *)
(*   SpecNStore  one connection running nstore add/delete/ask/query/count  *)
(*               with keys produced by the real codec;                     *)
(*   SpecCodec   the codec's pure functions applied to bounded inputs;     *)
(*   SpecKV      one connection running set/query/delete/count/bytes;      *)
(*   SpecDelete  one connection running nstore add and delete only;        *)
(*   SpecNames   the same on two relations with names that share a prefix; *)
(*   SpecArity   nstore calls with tuples and patterns of any length;      *)
(*   SpecRegistry threads calling apply() next to threads registering and  *)
(*               looking up nstores;                                       *)
(*   SpecPattern index selection for the patterns of bounded arities;      *)
(*   SpecFn      nstore_indices and pool_size_default applied to bounded   *)
(*               inputs.                                                   *)
(***************************************************************************)
EXTENDS Integers, Sequences, FiniteSets, TLC

VARIABLES
    \* ---- worker pool (Bonafide namedtuple, src/bonafide.py:231-241) ----
    worker_lock,      \* threading.Lock: its holder, or NoCaller
    worker_threads,   \* number of worker threads started
    worker_queue,     \* queue.Queue of tasks (FIFO)
    result_queue,     \* per call reply slot: caller -> sequence of replies
    caller,           \* caller -> position inside apply() and its locals
    worker,           \* worker -> position inside _bonafide_worker and locals
    kv_store,         \* the committed kv_store table of the database file
    conn,             \* worker -> its sqlite3 connection (open transaction)
    acquired,         \* history: functions in write-mutex acquisition order
    failed,           \* history: some apply() has already raised
    calls,            \* history: number of apply() calls made
    \* ---- nstore over one connection ----
    subspace,         \* Bonafide.subspace: name -> NStore
    rows,             \* the kv_store table as the connection sees it
    population,       \* history: tuples added and not deleted since
    last,             \* the last nstore call and what it returned
    \* ---- the codec's pure functions ----
    codec,            \* the last codec call: its arguments and results
    \* ---- the key-value operations over one connection ----
    db_rows,          \* the kv_store table as the connection sees it
    db_last,          \* the last key-value call and what it returned
    \* ---- nstore_indices and pool_size_default ----
    fn                \* the last call: its argument and result

poolvars == <<worker_lock, worker_threads, worker_queue, result_queue,
              caller, worker, kv_store, conn, acquired, failed, calls>>
nsvars == <<subspace, rows, population, last>>
codecvars == <<codec>>
kvvars == <<db_rows, db_last>>
fnvars == <<fn>>
vars == <<worker_lock, worker_threads, worker_queue, result_queue,
          caller, worker, kv_store, conn, acquired, failed, calls,
          subspace, rows, population, last, codec, db_rows, db_last, fn>>

(***************************************************************************)
(* Python values.  Every value is a record of the same shape so that any   *)
(* two values can be compared: t is the Python type, n an int's value, s   *)
(* the bytes of a bytes/str (str: its UTF-8 bytes; the strings used here   *)
(* are ASCII, one byte per character) or a Variable's name, items the      *)
(* elements of a tuple.                                                    *)
(***************************************************************************)
PyNone == [t |-> "none", n |-> 0, s |-> <<>>, items |-> <<>>]
PyBool(b) == [t |-> "bool", n |-> IF b THEN 1 ELSE 0, s |-> <<>>, items |-> <<>>]
PyInt(i) == [t |-> "int", n |-> i, s |-> <<>>, items |-> <<>>]
PyBytes(b) == [t |-> "bytes", n |-> 0, s |-> b, items |-> <<>>]
PyStr(b) == [t |-> "str", n |-> 0, s |-> b, items |-> <<>>]
PyTuple(xs) == [t |-> "tuple", n |-> 0, s |-> <<>>, items |-> xs]
Variable(name) == [t |-> "Variable", n |-> 0, s |-> name, items |-> <<>>]

isVariable(item) == item.t = "Variable"

\* the absent bytes value (Python None where bytes are expected)
NoBytes == <<-1>>

_BONAFIDE_BYTE_NULL == 0
_BONAFIDE_BYTE_BYTES == 1
_BONAFIDE_BYTE_STRING == 2
_BONAFIDE_BYTE_NESTED == 3
_BONAFIDE_BYTE_INT_ZERO == 4
_BONAFIDE_BYTE_INT_POS == 5
_BONAFIDE_BYTE_INT_NEG == 6
_BONAFIDE_BYTE_TRUE == 8
_BONAFIDE_BYTE_FALSE == 9

(***************************************************************************)
(* bytes helpers                                                           *)
(***************************************************************************)
RECURSIVE Concat(_)
Concat(ss) == IF ss = <<>> THEN <<>> ELSE Head(ss) \o Concat(Tail(ss))

\* bytes.replace(b"\x00", b"\x00\xff")
RECURSIVE Escape(_)
Escape(b) ==
    IF b = <<>> THEN <<>>
    ELSE IF Head(b) = 0 THEN <<0, 255>> \o Escape(Tail(b))
    ELSE <<Head(b)>> \o Escape(Tail(b))

\* bytes.replace(b"\x00\xff", b"\x00"): leftmost, non-overlapping
RECURSIVE Unescape(_)
Unescape(b) ==
    IF b = <<>> THEN <<>>
    ELSE IF Len(b) >= 2 /\ b[1] = 0 /\ b[2] = 255
         THEN <<0>> \o Unescape(SubSeq(b, 3, Len(b)))
    ELSE <<Head(b)>> \o Unescape(Tail(b))

\* a pack that writes the low byte first
PackQ_le(m) ==
    <<m % 256, (m \div 256) % 256, (m \div 65536) % 256, (m \div 16777216) % 256,
      0, 0, 0, 0>>

\* struct.pack(">Q", m) for 0 <= m < 2^31: the four high bytes are zero
PackQ(m) ==
    <<0, 0, 0, 0,
      (m \div 16777216) % 256, (m \div 65536) % 256, (m \div 256) % 256, m % 256>>

\* struct.pack(">Q", (1 << 64) - 1 + value) for -2^31 < value < 0:
\* 2^64 - 1 - m is the bitwise complement of m on 64 bits
PackQNeg(value) == [i \in 1..8 |-> 255 - PackQ(0 - value)[i]]

\* an unpack that reads the image low byte first
UnpackQ_le(b) == b[8] * 16777216 + b[7] * 65536 + b[6] * 256 + b[5]

\* struct.unpack(">Q", b)[0] for an image below 2^31
UnpackQ(b) == b[5] * 16777216 + b[6] * 65536 + b[7] * 256 + b[8]

\* byte-lexicographic order (memcmp, then length), as SQLite compares BLOBs
\* and Python compares bytes
RECURSIVE BytesLess(_, _)
BytesLess(a, b) ==
    IF b = <<>> THEN FALSE
    ELSE IF a = <<>> THEN TRUE
    ELSE IF Head(a) # Head(b) THEN Head(a) < Head(b)
    ELSE BytesLess(Tail(a), Tail(b))

BytesLeq(a, b) == a = b \/ BytesLess(a, b)

(***************************************************************************)
(* The codec                                                               *)
(***************************************************************************)
RECURSIVE _bytes_write_one(_, _)
_bytes_write_one(value, nested) ==
    IF value.t = "none" THEN
        IF nested THEN <<_BONAFIDE_BYTE_NULL, 255>> ELSE <<_BONAFIDE_BYTE_NULL>>
    ELSE IF value.t = "bool" THEN
        <<IF value.n = 1 THEN _BONAFIDE_BYTE_TRUE ELSE _BONAFIDE_BYTE_FALSE>>
    ELSE IF value.t = "bytes" THEN
        <<_BONAFIDE_BYTE_BYTES>> \o Escape(value.s) \o <<0>>
    ELSE IF value.t = "str" THEN
        <<_BONAFIDE_BYTE_STRING>> \o Escape(value.s) \o <<0>>
    ELSE IF value.t = "int" /\ value.n = 0 THEN
        <<_BONAFIDE_BYTE_INT_ZERO>>
    ELSE IF value.t = "int" THEN
        IF value.n > 0
        THEN <<_BONAFIDE_BYTE_INT_POS>> \o PackQ(value.n)
        ELSE <<_BONAFIDE_BYTE_INT_NEG>> \o PackQNeg(value.n)
    ELSE \* tuple or list
        <<_BONAFIDE_BYTE_NESTED>>
        \o Concat([i \in 1..Len(value.items) |->
                      _bytes_write_one(value.items[i], TRUE)])
        \o <<0>>

bytes_write(items) ==
    Concat([i \in 1..Len(items) |-> _bytes_write_one(items[i], FALSE)])

\* the scan for the terminator of a bytes/str value; positions are 1-based,
\* end is the index of the byte under examination
RECURSIVE ScanEnd(_, _)
ScanEnd(data, end) ==
    IF end > Len(data) THEN end
    ELSE IF data[end] = 0 /\ (end + 1 > Len(data) \/ data[end + 1] # 255) THEN end
    ELSE ScanEnd(data, IF data[end] # 0 THEN end + 1 ELSE end + 2)

\* _bytes_read_one(data, pos) returns <<value, pos'>>; pos is 1-based
RECURSIVE _bytes_read_one(_, _)
RECURSIVE ReadNested(_, _, _)
_bytes_read_one(data, pos) ==
    LET code == data[pos] IN
    IF code = _BONAFIDE_BYTE_NULL THEN <<PyNone, pos + 1>>
    ELSE IF code = _BONAFIDE_BYTE_BYTES THEN
        LET end == ScanEnd(data, pos + 1) IN
        <<PyBytes(Unescape(SubSeq(data, pos + 1, end - 1))), end + 1>>
    ELSE IF code = _BONAFIDE_BYTE_STRING THEN
        LET end == ScanEnd(data, pos + 1) IN
        <<PyStr(Unescape(SubSeq(data, pos + 1, end - 1))), end + 1>>
    ELSE IF code = _BONAFIDE_BYTE_INT_ZERO THEN <<PyInt(0), pos + 1>>
    ELSE IF code = _BONAFIDE_BYTE_INT_POS THEN
        <<PyInt(UnpackQ(SubSeq(data, pos + 1, pos + 8))), pos + 9>>
    ELSE IF code = _BONAFIDE_BYTE_INT_NEG THEN
        \* val - ((1 << 64) - 1), val the complement image of the magnitude
        <<PyInt(0 - UnpackQ([i \in 1..8 |-> 255 - data[pos + i]])), pos + 9>>
    ELSE IF code = _BONAFIDE_BYTE_TRUE THEN <<PyBool(TRUE), pos + 1>>
    ELSE IF code = _BONAFIDE_BYTE_FALSE THEN <<PyBool(FALSE), pos + 1>>
    ELSE \* _BONAFIDE_BYTE_NESTED
        ReadNested(data, pos + 1, <<>>)

ReadNested(data, pos, result) ==
    IF pos > Len(data) THEN <<PyTuple(result), pos + 1>>
    ELSE IF data[pos] = 0 THEN
        IF pos + 1 <= Len(data) /\ data[pos + 1] = 255
        THEN ReadNested(data, pos + 2, Append(result, PyNone))
        ELSE <<PyTuple(result), pos + 1>>
    ELSE LET r == _bytes_read_one(data, pos) IN
         ReadNested(data, r[2], Append(result, r[1]))

RECURSIVE ReadAll(_, _, _)
ReadAll(data, pos, result) ==
    IF pos > Len(data) THEN result
    ELSE LET r == _bytes_read_one(data, pos) IN
         ReadAll(data, r[2], Append(result, r[1]))

bytes_read(data) == ReadAll(data, 1, <<>>)

\* bytes_next(data): NoBytes stands for the None it returns
RECURSIVE NextFrom(_, _)
NextFrom(data, i) ==
    IF i = 0 THEN NoBytes
    ELSE IF data[i] # 255 THEN SubSeq(data, 1, i - 1) \o <<data[i] + 1>>
    ELSE NextFrom(data, i - 1)

\* a bytes_next that looks at the last byte only
bytes_next_last(data) ==
    IF data = <<>> THEN <<0>>
    ELSE IF data[Len(data)] # 255
    THEN SubSeq(data, 1, Len(data) - 1) \o <<data[Len(data)] + 1>>
    ELSE NoBytes

bytes_next(data) == IF data = <<>> THEN <<0>> ELSE NextFrom(data, Len(data))

(***************************************************************************)
(* The kv_store table of one connection: a function from the keys present  *)
(* to their values.                                                        *)
(***************************************************************************)
EmptyTable == [k \in {} |-> <<>>]

\* LIMIT -1: SQLite's "no limit", the SQL the code emits when limit is None
NoLimit == -1

\* a set that appends to the value of a key already present
set_append(table, key, value) ==
    [k \in DOMAIN table \cup {key} |->
        IF k # key THEN table[k]
        ELSE IF key \in DOMAIN table THEN table[key] \o value ELSE value]

\* set: INSERT OR REPLACE INTO kv_store (key, value) VALUES (?, ?)
set(table, key, value) ==
    [k \in DOMAIN table \cup {key} |-> IF k = key THEN value ELSE table[k]]

\* delete with other = None: DELETE FROM kv_store WHERE key = ?
delete(table, key) == [k \in DOMAIN table \ {key} |-> table[k]]

\* a rowcount that counts the rows of the table
delete_rowcount_total(table, key) == Cardinality(DOMAIN table)

\* cursor.rowcount of the single-key delete
delete_rowcount(table, key) == IF key \in DOMAIN table THEN 1 ELSE 0

\* ORDER BY key ASC over a set of keys
RECURSIVE SortAsc(_)
SortAsc(keys) ==
    IF keys = {} THEN <<>>
    ELSE LET m == CHOOSE k \in keys : \A j \in keys : BytesLeq(k, j)
         IN <<m>> \o SortAsc(keys \ {m})

\* a reversal that leaves the order as it is
Reverse_same(seq) == [i \in 1..Len(seq) |-> seq[i]]

Reverse(seq) == [i \in 1..Len(seq) |-> seq[Len(seq) + 1 - i]]

\* the SELECT shared by query, count and bytes: WHERE key >= ? AND key < ?
\* ORDER BY key ASC|DESC [LIMIT ? [OFFSET ?]]
Select(table, key, other, offset, limit) ==
    LET forward == BytesLeq(key, other)
        lo == IF forward THEN key ELSE other
        hi == IF forward THEN other ELSE key
        hit == {k \in DOMAIN table : BytesLeq(lo, k) /\ BytesLess(k, hi)}
        ordered == IF forward THEN SortAsc(hit) ELSE Reverse(SortAsc(hit))
        skipped == SubSeq(ordered, offset + 1, Len(ordered))
        capped == IF limit = NoLimit \/ limit >= Len(skipped) THEN skipped
                  ELSE SubSeq(skipped, 1, limit)
    IN [i \in 1..Len(capped) |-> <<capped[i], table[capped[i]]>>]

\* query: the value of key (NoBytes when absent) when other is NoBytes,
\* the rows of the range otherwise
query(table, key, other, offset, limit) ==
    IF other = NoBytes
    THEN IF key \in DOMAIN table THEN table[key] ELSE NoBytes
    ELSE Select(table, key, other, offset, limit)

\* a count that ignores offset and limit
count_all(table, key, other, offset, limit) ==
    Len(Select(table, key, other, 0, NoLimit))

count(table, key, other, offset, limit) ==
    Len(Select(table, key, other, offset, limit))

RECURSIVE SumLen(_)
SumLen(rs) ==
    IF rs = <<>> THEN 0
    ELSE Len(Head(rs)[1]) + Len(Head(rs)[2]) + SumLen(Tail(rs))

bytes(table, key, other, offset, limit) ==
    SumLen(Select(table, key, other, offset, limit))

(***************************************************************************)
(* transactional: what the wrapper raises, given how it was called and     *)
(* what the wrapped function raised ("ok": it returned).                   *)
(***************************************************************************)
\* the attributes of a BonafideCnx namedtuple instance that name a field
BonafideCnx == {"bonafide", "sqlite"}

\* cnx.<method>() on a BonafideCnx: the attribute lookup
CnxCall(method) == IF method \in BonafideCnx THEN "ok" ELSE "AttributeError"

transactional(something, raised) ==
    IF something = "BonafideCnx" THEN
        LET try == IF raised = "ok" THEN CnxCall("commit") ELSE raised
            except == IF try = "ok" THEN "ok"
                      ELSE IF CnxCall("rollback") = "ok" THEN try
                      ELSE CnxCall("rollback")
            finally == IF CnxCall("close") = "ok" THEN except
                       ELSE CnxCall("close")
        IN finally
    ELSE IF something = "BonafideTxn" THEN raised
    ELSE "NotImplementedError"

(***************************************************************************)
(* nstore_indices                                                          *)
(***************************************************************************)
\* itertools.combinations(range(lo, hi + 1), r), in the order it yields them
RECURSIVE Combinations(_, _, _)
Combinations(lo, hi, r) ==
    IF r = 0 THEN << <<>> >>
    ELSE IF lo > hi THEN <<>>
    ELSE LET with == Combinations(lo + 1, hi, r - 1)
         IN [i \in 1..Len(with) |-> <<lo>> \o with[i]] \o Combinations(lo + 1, hi, r)

\* itertools.permutations(xs), as a set: every element first, followed by
\* every permutation of the others
RECURSIVE permutations(_)
permutations(xs) ==
    IF xs = <<>> THEN {<<>>}
    ELSE UNION {{<<xs[i]>> \o p :
                    p \in permutations(SubSeq(xs, 1, i - 1) \o SubSeq(xs, i + 1, Len(xs)))} :
                i \in 1..Len(xs)}

\* all(a == b for a, b in zip(perm, index)) under len(perm) <= len(index)
IsPrefix(perm, index) ==
    Len(perm) <= Len(index) /\ \A i \in 1..Len(perm) : perm[i] = index[i]

\* every combination of every size r in 1..n is a prefix of some index
_nstore_indices_verify_coverage(indices, n) ==
    \A r \in 1..n :
        LET combinations == Combinations(0, n - 1, r) IN
        \A c \in 1..Len(combinations) :
            LET perms == permutations(combinations[c]) IN
            \E i \in 1..Len(indices) :
                \E perm \in perms : IsPrefix(perm, indices[i])

\* a search that takes the last such idx
FindSwap_last(L) ==
    LET hits == {idx \in 1..Len(L) - 1 : ~L[idx][2] /\ L[idx + 1][2]}
    IN IF hits = {} THEN 0 ELSE CHOOSE idx \in hits : \A j \in hits : idx >= j

\* the first idx with L[idx] not in combo and L[idx + 1] in combo, 0 if none
FindSwap(L) ==
    LET hits == {idx \in 1..Len(L) - 1 : ~L[idx][2] /\ L[idx + 1][2]}
    IN IF hits = {} THEN 0 ELSE CHOOSE idx \in hits : \A j \in hits : idx <= j

RECURSIVE Chain(_, _, _)
Chain(L, a, b) ==
    LET idx == FindSwap(L) IN
    IF idx = 0
    THEN Reverse(a) \o [k \in 1..Len(L) |-> L[k][1]] \o Reverse(b)
    ELSE Chain(SubSeq(L, 1, idx - 1) \o SubSeq(L, idx + 2, Len(L)),
               Append(a, L[idx + 1][1]), Append(b, L[idx][1]))

\* list < list in Python
RECURSIVE ListLess(_, _)
ListLess(a, b) ==
    IF b = <<>> THEN FALSE
    ELSE IF a = <<>> THEN TRUE
    ELSE IF Head(a) # Head(b) THEN Head(a) < Head(b)
    ELSE ListLess(Tail(a), Tail(b))

\* out.sort(): the place of out[i] in the sorted list, counting the lists below
\* it and the equal ones before it (the sort is stable)
Rank(out, i) ==
    Cardinality({j \in 1..Len(out) :
                    \/ ListLess(out[j], out[i])
                    \/ out[j] = out[i] /\ j < i}) + 1

\* an order that puts the last list first
Sort_rotated(out) ==
    IF out = <<>> THEN <<>> ELSE <<out[Len(out)]>> \o SubSeq(out, 1, Len(out) - 1)

Sort(out) ==
    [k \in 1..Len(out) |-> out[CHOOSE i \in 1..Len(out) : Rank(out, i) = k]]

InCombo(i, combo) == \E k \in 1..Len(combo) : combo[k] = i

\* the n rotations of the identity
nstore_indices_rotations(n) ==
    [c \in 1..n |-> [i \in 1..n |-> (c + i - 2) % n]]

\* the sorted list; the coverage assertion is checked by the callers below
nstore_indices(n) ==
    LET cx == Combinations(0, n - 1, n \div 2)
        out == [c \in 1..Len(cx) |->
                   Chain([i \in 1..n |-> <<i - 1, InCombo(i - 1, cx[c])>>],
                         <<>>, <<>>)]
    IN Sort(out)

\* NStore(prefix, n, indices, name)
nstore_new(name, prefix, n) ==
    [prefix |-> prefix, n |-> n, indices |-> nstore_indices(n), name |-> name]

_nstore_permute(items, index) == [i \in 1..Len(index) |-> items[index[i] + 1]]

_nstore_unpermute(items, index) ==
    [j \in 1..Len(items) |->
        LET from == {i \in 1..Len(index) : index[i] = j - 1}
        IN IF from = {} THEN PyNone
           ELSE items[CHOOSE i \in from : \A k \in from : k <= i]]

(***************************************************************************)
(* nstore: pattern to index, bindings, and the operations.  The operations *)
(* take the connection's table and return what they leave and what they    *)
(* raise.                                                                  *)
(***************************************************************************)
\* positions (0-based) of the non-variable elements
RECURSIVE _nstore_pattern_to_combination(_)
_nstore_pattern_to_combination(pattern) ==
    IF pattern = <<>> THEN <<>>
    ELSE LET front == SubSeq(pattern, 1, Len(pattern) - 1)
             rest == _nstore_pattern_to_combination(front)
         IN IF isVariable(pattern[Len(pattern)]) THEN rest
            ELSE Append(rest, Len(pattern) - 1)

\* a selection that always takes the first index
_nstore_pattern_to_index_first(pattern, indices) ==
    [found |-> TRUE, index |-> indices[1], subspace |-> 0]

\* [found, index, subspace]: the first index some permutation of the
\* combination is a prefix of; found = FALSE stands for the ValueError
_nstore_pattern_to_index(pattern, indices) ==
    LET combination == _nstore_pattern_to_combination(pattern)
        hits == {i \in 1..Len(indices) :
                    \E perm \in permutations(combination) :
                        IsPrefix(perm, indices[i])}
    IN IF hits = {} THEN [found |-> FALSE, index |-> <<>>, subspace |-> 0]
       ELSE LET i == CHOOSE i \in hits : \A j \in hits : i <= j
            IN [found |-> TRUE, index |-> indices[i], subspace |-> i - 1]

RECURSIVE _nstore_pattern_to_prefix(_, _)
_nstore_pattern_to_prefix(pattern, index) ==
    IF index = <<>> THEN <<>>
    ELSE IF isVariable(pattern[Head(index) + 1]) THEN <<>>
    ELSE <<pattern[Head(index) + 1]>>
         \o _nstore_pattern_to_prefix(pattern, Tail(index))

\* a binding is a function from variable names to values
EmptyBinding == [v \in {} |-> PyNone]

_nstore_bind_pattern(pattern, bindings) ==
    [i \in 1..Len(pattern) |->
        IF isVariable(pattern[i]) /\ pattern[i].s \in DOMAIN bindings
        THEN bindings[pattern[i].s] ELSE pattern[i]]

\* the last occurrence of a name in the pattern wins, as dict assignment does
_nstore_bind_tuple(pattern, tuple_items, seed) ==
    LET m == IF Len(pattern) < Len(tuple_items) THEN Len(pattern)
             ELSE Len(tuple_items)
        names == {pattern[i].s : i \in {j \in 1..m : isVariable(pattern[j])}}
    IN [v \in DOMAIN seed \cup names |->
           IF v \in names
           THEN LET occ == {i \in 1..m : isVariable(pattern[i]) /\ pattern[i].s = v}
                IN tuple_items[CHOOSE i \in occ : \A k \in occ : k <= i]
           ELSE seed[v]]

\* a key without the relation's prefix
NstoreKey_noprefix(ns, sub, items) ==
    bytes_write(<<PyInt(sub)>> \o items)

\* key of items in one subspace
NstoreKey(ns, sub, items) ==
    bytes_write(ns.prefix \o <<PyInt(sub)>> \o items)

\* key_start, key_end of the prefix scan for a pattern
ScanRange(ns, pattern, ix) ==
    LET prefix_items == _nstore_pattern_to_prefix(pattern, ix.index)
        key_start == NstoreKey(ns, ix.subspace, prefix_items)
        key_end == IF bytes_next(key_start) = NoBytes THEN key_start \o <<0>>
                   ELSE bytes_next(key_start)
    IN <<key_start, key_end>>

\* the loop of nstore_add over subspaces sub.. (0-based)
RECURSIVE AddFrom(_, _, _, _)
AddFrom(table, ns, items, sub) ==
    IF sub >= Len(ns.indices) THEN table
    ELSE AddFrom(set(table,
                     NstoreKey(ns, sub, _nstore_permute(items, ns.indices[sub + 1])),
                     <<1>>),
                 ns, items, sub + 1)

RECURSIVE DeleteFrom(_, _, _, _)
DeleteFrom(table, ns, items, sub) ==
    IF sub >= Len(ns.indices) THEN table
    ELSE DeleteFrom(delete(table,
                        NstoreKey(ns, sub, _nstore_permute(items, ns.indices[sub + 1]))),
                    ns, items, sub + 1)

\* a result: the table left, the exception raised ("ok": none), the value
\* returned (a bool, an int or a list of bindings, by field)
Result(table, raised, b, n, bindings) ==
    [table |-> table, raised |-> raised, b |-> b, n |-> n, bindings |-> bindings]

\* nstore_add without the assertion on the length of the tuple
nstore_add_unchecked(table, registry, name, items) ==
    IF name \notin DOMAIN registry THEN Result(table, "KeyError", FALSE, 0, <<>>)
    ELSE IF Len(items) < registry[name].n
    THEN Result(table, "IndexError", FALSE, 0, <<>>)
    ELSE Result(AddFrom(table, registry[name], items, 0), "ok", FALSE, 0, <<>>)

nstore_add(table, registry, name, items) ==
    IF name \notin DOMAIN registry THEN Result(table, "KeyError", FALSE, 0, <<>>)
    ELSE IF Len(items) # registry[name].n
    THEN Result(table, "AssertionError", FALSE, 0, <<>>)
    ELSE Result(AddFrom(table, registry[name], items, 0), "ok", FALSE, 0, <<>>)

\* nstore_delete that removes the row of subspace 0 only
nstore_delete_first(table, registry, name, items) ==
    IF name \notin DOMAIN registry THEN Result(table, "KeyError", FALSE, 0, <<>>)
    ELSE IF Len(items) # registry[name].n
    THEN Result(table, "AssertionError", FALSE, 0, <<>>)
    ELSE Result(delete(table,
                       NstoreKey(registry[name], 0,
                                 _nstore_permute(items, registry[name].indices[1]))),
                "ok", FALSE, 0, <<>>)

\* nstore_delete that removes every row of the table
nstore_delete_clear(table, registry, name, items) ==
    IF name \notin DOMAIN registry THEN Result(table, "KeyError", FALSE, 0, <<>>)
    ELSE IF Len(items) # registry[name].n
    THEN Result(table, "AssertionError", FALSE, 0, <<>>)
    ELSE Result(EmptyTable, "ok", FALSE, 0, <<>>)

\* nstore_delete that leaves the row of subspace 0 in place
nstore_delete_rest(table, registry, name, items) ==
    IF name \notin DOMAIN registry THEN Result(table, "KeyError", FALSE, 0, <<>>)
    ELSE IF Len(items) # registry[name].n
    THEN Result(table, "AssertionError", FALSE, 0, <<>>)
    ELSE Result(DeleteFrom(table, registry[name], items, 1), "ok", FALSE, 0, <<>>)

nstore_delete(table, registry, name, items) ==
    IF name \notin DOMAIN registry THEN Result(table, "KeyError", FALSE, 0, <<>>)
    ELSE IF Len(items) # registry[name].n
    THEN Result(table, "AssertionError", FALSE, 0, <<>>)
    ELSE Result(DeleteFrom(table, registry[name], items, 0), "ok", FALSE, 0, <<>>)

\* nstore_ask that scans the keys that start with the tuple's key
nstore_ask_scan(table, registry, name, items) ==
    IF name \notin DOMAIN registry THEN Result(table, "KeyError", FALSE, 0, <<>>)
    ELSE IF Len(items) # registry[name].n
    THEN Result(table, "AssertionError", FALSE, 0, <<>>)
    ELSE LET ns == registry[name]
             key == NstoreKey(ns, 0, _nstore_permute(items, ns.indices[1]))
         IN Result(table, "ok",
                   count(table, key, bytes_next(key), 0, NoLimit) > 0, 0, <<>>)

nstore_ask(table, registry, name, items) ==
    IF name \notin DOMAIN registry THEN Result(table, "KeyError", FALSE, 0, <<>>)
    ELSE IF Len(items) # registry[name].n
    THEN Result(table, "AssertionError", FALSE, 0, <<>>)
    ELSE LET ns == registry[name]
             key == NstoreKey(ns, 0, _nstore_permute(items, ns.indices[1]))
         IN Result(table, "ok",
                   query(table, key, NoBytes, 0, NoLimit) # NoBytes, 0, <<>>)

\* the bindings one binding extends to under one pattern; <<FALSE, _>>
\* stands for the ValueError of _nstore_pattern_to_index
QueryOne(table, ns, pat, binding) ==
    LET bound_pattern == _nstore_bind_pattern(pat, binding)
        ix == _nstore_pattern_to_index(bound_pattern, ns.indices)
        range == ScanRange(ns, bound_pattern, ix)
        results == query(table, range[1], range[2], 0, NoLimit)
    IN IF ~ix.found THEN <<FALSE, <<>>>>
       ELSE <<TRUE,
              [r \in 1..Len(results) |->
                 LET unpacked == bytes_read(results[r][1])
                     permuted_tuple == SubSeq(unpacked, Len(ns.prefix) + 2,
                                              Len(unpacked))
                     original_tuple == _nstore_unpermute(permuted_tuple, ix.index)
                 IN _nstore_bind_tuple(pat, original_tuple, binding)]>>

\* the inner loop: every current binding extended under pat, in order
RECURSIVE QueryEach(_, _, _, _)
QueryEach(table, ns, pat, bindings) ==
    IF bindings = <<>> THEN <<TRUE, <<>>>>
    ELSE LET one == QueryOne(table, ns, pat, Head(bindings))
             more == QueryEach(table, ns, pat, Tail(bindings))
         IN IF ~one[1] \/ ~more[1] THEN <<FALSE, <<>>>>
            ELSE <<TRUE, one[2] \o more[2]>>

\* the outer loop over the patterns; raised is the first failure met
RECURSIVE QueryLoop(_, _, _, _)
QueryLoop(table, ns, patterns, bindings) ==
    IF patterns = <<>> THEN Result(table, "ok", FALSE, 0, bindings)
    ELSE IF Len(Head(patterns)) # ns.n
    THEN Result(table, "AssertionError", FALSE, 0, <<>>)
    ELSE LET new == QueryEach(table, ns, Head(patterns), bindings)
         IN IF ~new[1] THEN Result(table, "ValueError", FALSE, 0, <<>>)
            ELSE QueryLoop(table, ns, Tail(patterns), new[2])

nstore_query(table, registry, name, patterns) ==
    IF name \notin DOMAIN registry THEN Result(table, "KeyError", FALSE, 0, <<>>)
    ELSE QueryLoop(table, registry[name], patterns, <<EmptyBinding>>)

nstore_count(table, registry, name, pattern) ==
    IF name \notin DOMAIN registry THEN Result(table, "KeyError", FALSE, 0, <<>>)
    ELSE IF Len(pattern) # registry[name].n
    THEN Result(table, "AssertionError", FALSE, 0, <<>>)
    ELSE LET ns == registry[name]
             ix == _nstore_pattern_to_index(pattern, ns.indices)
             range == ScanRange(ns, pattern, ix)
         IN IF ~ix.found THEN Result(table, "ValueError", FALSE, 0, <<>>)
            ELSE Result(table, "ok", FALSE,
                        count(table, range[1], range[2], 0, NoLimit), <<>>)

nstore_bytes(table, registry, name, pattern) ==
    IF name \notin DOMAIN registry THEN Result(table, "KeyError", FALSE, 0, <<>>)
    ELSE IF Len(pattern) # registry[name].n
    THEN Result(table, "AssertionError", FALSE, 0, <<>>)
    ELSE LET ns == registry[name]
             ix == _nstore_pattern_to_index(pattern, ns.indices)
             range == ScanRange(ns, pattern, ix)
         IN IF ~ix.found THEN Result(table, "ValueError", FALSE, 0, <<>>)
            ELSE Result(table, "ok", FALSE,
                        bytes(table, range[1], range[2], 0, NoLimit), <<>>)

(***************************************************************************)
(* SpecNStore: one connection, the calls a user makes on it.               *)
(***************************************************************************)
MaxTuples == 2

\* arity of the relation registered (nstore(bonafide, name, 2))
Arity == 2

\* "r"
Names == {<<114>>}
\* "a", "a\x00"
Items == {PyStr(<<97>>), PyStr(<<97, 0>>)}
\* x, y
Variables == {Variable(<<120>>), Variable(<<121>>)}
Tuples == [1..Arity -> Items]
Patterns == [1..Arity -> Items \cup Variables]
\* a call passes the worker's raw connection or a transaction on it
Somethings == {"BonafideCnx", "BonafideTxn"}

\* ask, query and count change nothing but `last`: a read that follows a
\* read reaches the states the first read reaches, so only the reads that
\* follow a call of another kind are explored
ReadOps == {"ask", "query", "count", "bytes"}

\* what the caller of a transactional nstore function gets back
Returned(op, something, name, args, r) ==
    LET raised == transactional(something, r.raised) IN
    [op |-> op, something |-> something, name |-> name, args |-> args,
     before |-> population, raised |-> raised,
     b |-> IF raised = "ok" THEN r.b ELSE FALSE,
     n |-> IF raised = "ok" THEN r.n ELSE 0,
     bindings |-> IF raised = "ok" THEN r.bindings ELSE <<>>]

InitNStore ==
    /\ subspace = [nm \in {} |-> 0]
    /\ rows = EmptyTable
    /\ population = {}
    /\ last = [op |-> "new", something |-> "", name |-> <<>>, args |-> <<>>,
               before |-> {}, raised |-> "ok", b |-> FALSE, n |-> 0, bindings |-> <<>>]

\* nstore(bonafide, name, n): nstore_new, then nstore_register
Nstore(name, n) ==
    /\ name \notin DOMAIN subspace
    /\ IF _nstore_indices_verify_coverage(nstore_indices(n), n)
       THEN subspace' = [nm \in DOMAIN subspace \cup {name} |->
                            IF nm = name THEN nstore_new(name, <<PyStr(name)>>, n)
                            ELSE subspace[nm]]
       ELSE UNCHANGED subspace
    /\ last' = [op |-> "nstore", something |-> "", name |-> name, args |-> <<>>,
                before |-> population,
                raised |-> IF _nstore_indices_verify_coverage(nstore_indices(n), n)
                           THEN "ok" ELSE "AssertionError",
                b |-> FALSE, n |-> 0, bindings |-> <<>>]
    /\ UNCHANGED <<rows, population>>
    /\ UNCHANGED poolvars
    /\ UNCHANGED codecvars
    /\ UNCHANGED kvvars
    /\ UNCHANGED fnvars

NstoreAdd(something, name, items) ==
    LET r == nstore_add(rows, subspace, name, items) IN
    /\ Cardinality(population \cup {items}) <= MaxTuples
    /\ rows' = r.table
    /\ population' = IF r.raised = "ok" THEN population \cup {items} ELSE population
    /\ last' = Returned("add", something, name, <<items>>, r)
    /\ UNCHANGED subspace
    /\ UNCHANGED poolvars
    /\ UNCHANGED codecvars
    /\ UNCHANGED kvvars
    /\ UNCHANGED fnvars

NstoreDelete(something, name, items) ==
    LET r == nstore_delete(rows, subspace, name, items) IN
    /\ rows' = r.table
    /\ population' = IF r.raised = "ok" THEN population \ {items} ELSE population
    /\ last' = Returned("delete", something, name, <<items>>, r)
    /\ UNCHANGED subspace
    /\ UNCHANGED poolvars
    /\ UNCHANGED codecvars
    /\ UNCHANGED kvvars
    /\ UNCHANGED fnvars

NstoreAsk(something, name, items) ==
    LET r == nstore_ask(rows, subspace, name, items) IN
    /\ last.op \notin ReadOps
    /\ last' = Returned("ask", something, name, <<items>>, r)
    /\ UNCHANGED <<subspace, rows, population>>
    /\ UNCHANGED poolvars
    /\ UNCHANGED codecvars
    /\ UNCHANGED kvvars
    /\ UNCHANGED fnvars

NstoreQuery(something, name, patterns) ==
    LET r == nstore_query(rows, subspace, name, patterns) IN
    /\ last.op \notin ReadOps
    /\ last' = Returned("query", something, name, patterns, r)
    /\ UNCHANGED <<subspace, rows, population>>
    /\ UNCHANGED poolvars
    /\ UNCHANGED codecvars
    /\ UNCHANGED kvvars
    /\ UNCHANGED fnvars

NstoreCount(something, name, pattern) ==
    LET r == nstore_count(rows, subspace, name, pattern) IN
    /\ last.op \notin ReadOps
    /\ last' = Returned("count", something, name, <<pattern>>, r)
    /\ UNCHANGED <<subspace, rows, population>>
    /\ UNCHANGED poolvars
    /\ UNCHANGED codecvars
    /\ UNCHANGED kvvars
    /\ UNCHANGED fnvars

NstoreBytes(something, name, pattern) ==
    LET r == nstore_bytes(rows, subspace, name, pattern) IN
    /\ last.op \notin ReadOps
    /\ last' = Returned("bytes", something, name, <<pattern>>, r)
    /\ UNCHANGED <<subspace, rows, population>>
    /\ UNCHANGED poolvars
    /\ UNCHANGED codecvars
    /\ UNCHANGED kvvars
    /\ UNCHANGED fnvars

NextNStore ==
    \/ \E name \in Names : Nstore(name, Arity)
    \/ \E sth \in Somethings, name \in Names, items \in Tuples :
          NstoreAdd(sth, name, items)
    \/ \E sth \in Somethings, name \in Names, items \in Tuples :
          NstoreDelete(sth, name, items)
    \/ \E sth \in Somethings, name \in Names, items \in Tuples :
          NstoreAsk(sth, name, items)
    \/ \E sth \in Somethings, name \in Names, p \in Patterns :
          NstoreQuery(sth, name, <<p>>)
    \/ \E sth \in Somethings, name \in Names, p \in Patterns, q \in Patterns :
          NstoreQuery(sth, name, <<p, q>>)
    \/ \E sth \in Somethings, name \in Names, p \in Patterns :
          NstoreCount(sth, name, p)
    \/ \E sth \in Somethings, name \in Names, p \in Patterns :
          NstoreBytes(sth, name, p)

(***************************************************************************)
(* SpecNames: two relations on one connection, registered under a name and *)
(* under that name followed by a 0x00 character; tuples are added to and   *)
(* deleted from either.                                                    *)
(***************************************************************************)
\* "r" and "r\x00": the first is a prefix of the second
NamePair == {<<114>>, <<114, 0>>}

\* ("a", "a") and ("a", "a\x00")
NameTuples == {t \in Tuples : t[1] = PyStr(<<97>>)}

NextNames ==
    \/ \E name \in NamePair : Nstore(name, Arity)
    \/ \E sth \in Somethings, name \in NamePair, items \in NameTuples :
          NstoreAdd(sth, name, items)
    \/ \E sth \in Somethings, name \in NamePair, items \in NameTuples :
          NstoreDelete(sth, name, items)

\* the writes alone: tuples are added and deleted in any order
NextDelete ==
    \/ \E name \in Names : Nstore(name, Arity)
    \/ \E sth \in Somethings, name \in Names, items \in Tuples :
          NstoreAdd(sth, name, items)
    \/ \E sth \in Somethings, name \in Names, items \in Tuples :
          NstoreDelete(sth, name, items)

(***************************************************************************)
(* SpecArity: the same calls with tuples and patterns one element shorter  *)
(* or longer than the relation's arity, next to at most one stored tuple.  *)
(***************************************************************************)
WrongTuples == [1..(Arity - 1) -> Items] \cup [1..(Arity + 1) -> Items]
WrongPatterns ==
    [1..(Arity - 1) -> Items \cup {Variable(<<120>>)}]
        \cup [1..(Arity + 1) -> Items \cup {Variable(<<120>>)}]

NextArity ==
    \/ \E name \in Names : Nstore(name, Arity)
    \/ population = {} /\
          \E sth \in Somethings, name \in Names, items \in Tuples :
              NstoreAdd(sth, name, items)
    \/ \E sth \in Somethings, name \in Names, items \in WrongTuples :
          \/ NstoreAdd(sth, name, items)
          \/ NstoreDelete(sth, name, items)
          \/ NstoreAsk(sth, name, items)
    \/ \E sth \in Somethings, name \in Names, p \in WrongPatterns :
          \/ NstoreQuery(sth, name, <<p>>)
          \/ NstoreCount(sth, name, p)
          \/ NstoreBytes(sth, name, p)
    \/ \E sth \in Somethings, name \in Names, p \in Patterns, q \in WrongPatterns :
          NstoreQuery(sth, name, <<p, q>>)

(***************************************************************************)
(* SpecCodec: bytes_write, bytes_read and bytes_next applied to inputs     *)
(* drawn from bounded sets.                                                *)
(***************************************************************************)
\* the longest tuple encoded, the largest magnitude of the small integers,
\* the longest byte string bytes_next is given
MaxLen == 2
MaxInt == 2
MaxBytes == 2

\* integers: the small ones and two that need a second byte
Ints == (0 - MaxInt)..MaxInt \cup {256, -256}

\* the first element of a tuple: every supported scalar type, bytes and
\* strings with and without 0x00, nested tuples with and without None
Scalars ==
    {PyNone, PyBool(FALSE), PyBool(TRUE)}
    \cup {PyInt(i) : i \in Ints}
    \cup {PyBytes(<<>>), PyBytes(<<0>>), PyBytes(<<0, 255>>), PyBytes(<<97>>)}
    \cup {PyStr(<<>>), PyStr(<<97>>), PyStr(<<97, 0>>), PyStr(<<97, 98>>)}
    \cup {PyTuple(<<>>), PyTuple(<<PyNone>>), PyTuple(<<PyInt(0)>>),
          PyTuple(<<PyStr(<<97>>), PyNone>>), PyTuple(<<PyTuple(<<>>)>>)}

\* the elements that follow the first: the lowest tag, an integer, the
\* highest tag
TailScalars == {PyNone, PyInt(1), PyBool(FALSE)}

\* the tuples over xs of length at most n
RECURSIVE TuplesUpTo(_, _)
TuplesUpTo(xs, n) ==
    IF n = 0 THEN {<<>>}
    ELSE TuplesUpTo(xs, n - 1)
         \cup {Append(t, x) : t \in {u \in TuplesUpTo(xs, n - 1) : Len(u) = n - 1},
                              x \in xs}

CodecTuples ==
    {<<>>} \cup {<<h>> \o tl : h \in Scalars, tl \in TuplesUpTo(TailScalars, MaxLen - 1)}

\* byte values at the two ends of the range
ByteValues == {0, 1, 254, 255}
ByteStrings == TuplesUpTo(ByteValues, MaxBytes) \ {<<>>}

NoCall == [op |-> "none", t1 |-> <<>>, t2 |-> <<>>, b1 |-> <<>>, b2 |-> <<>>,
           back |-> <<>>, next |-> NoBytes]

InitCodec == codec = NoCall

\* bytes_write(t1) and bytes_write(t2)
BytesWrite(t1, t2) ==
    /\ codec.op = "none"
    /\ codec' = [NoCall EXCEPT !.op = "bytes_write", !.t1 = t1, !.t2 = t2,
                               !.b1 = bytes_write(t1), !.b2 = bytes_write(t2)]
    /\ UNCHANGED poolvars
    /\ UNCHANGED nsvars
    /\ UNCHANGED kvvars
    /\ UNCHANGED fnvars

\* bytes_read of what bytes_write returned
BytesRead ==
    /\ codec.op = "bytes_write"
    /\ codec.t1 = codec.t2
    /\ codec' = [codec EXCEPT !.op = "bytes_read", !.back = bytes_read(codec.b1)]
    /\ UNCHANGED poolvars
    /\ UNCHANGED nsvars
    /\ UNCHANGED kvvars
    /\ UNCHANGED fnvars

\* bytes_next(data)
BytesNext(data) ==
    /\ codec.op = "none"
    /\ codec' = [NoCall EXCEPT !.op = "bytes_next", !.b1 = data,
                               !.next = bytes_next(data)]
    /\ UNCHANGED poolvars
    /\ UNCHANGED nsvars
    /\ UNCHANGED kvvars
    /\ UNCHANGED fnvars

\* one call at a time: the arguments are drawn only when no call is recorded
NextCodec ==
    \/ codec.op = "none" /\ \E t1 \in CodecTuples, t2 \in CodecTuples : BytesWrite(t1, t2)
    \/ BytesRead
    \/ codec.op = "none" /\ \E data \in ByteStrings : BytesNext(data)

(***************************************************************************)
(* SpecKV: the key-value calls made on the BonafideTxn of one transaction. *)
(* The table is first filled by a loop of set calls; then one point write  *)
(* may follow, and one read or one range call.                             *)
(***************************************************************************)
MaxKeys == 3
MaxOffset == 1
MaxLimit == 1

\* b"a", b"b", b"c", ... and a range end above all of them
Keys == {<<96 + i>> : i \in 1..MaxKeys}
KeyTop == <<255>>
Ends == Keys \cup {KeyTop}
\* b"v", b"ww"
Values == {<<118>>, <<119, 119>>}
Offsets == 0..MaxOffset
Limits == {NoLimit} \cup 0..MaxLimit
Tables == UNION {[D -> Values] : D \in SUBSET Keys}

\* the sizes the store is documented to accept, and one byte more
MaxKeySize == 1024
MaxValueSize == 1048576
Blob(size) == [i \in 1..size |-> 120]

\* for key, value in items: set(txn, key, value)
RECURSIVE SetAll(_, _, _)
SetAll(table, keys, items) ==
    IF keys = <<>> THEN table
    ELSE SetAll(set(table, Head(keys), items[Head(keys)]), Tail(keys), items)

\* WHERE key >= ? AND key < ? with the parameters in the order the code
\* passes them: [key, other] when key <= other, [other, key] otherwise
Range(table, key, other) ==
    LET forward == BytesLeq(key, other)
        lo == IF forward THEN key ELSE other
        hi == IF forward THEN other ELSE key
    IN {k \in DOMAIN table : BytesLeq(lo, k) /\ BytesLess(k, hi)}

\* how many of `hit` rows LIMIT ? OFFSET ? leaves
Quota(hit, offset, limit) ==
    LET rest == IF offset >= hit THEN 0 ELSE hit - offset
    IN IF limit = NoLimit \/ limit >= rest THEN rest ELSE limit

\* a call: its arguments, the table before it, what it raised and what it
\* returned (val: bytes or None, rows: a list of rows, n: a number); prev is
\* the call before it
KVCall(op, key, other, offset, limit, value, raised, val, rs, n) ==
    [op |-> op, key |-> key, other |-> other, offset |-> offset, limit |-> limit,
     value |-> value, before |-> db_rows,
     raised |-> transactional("BonafideTxn", raised),
     val |-> val, rows |-> rs, n |-> n,
     prev |-> [op |-> db_last.op, key |-> db_last.key, value |-> db_last.value]]

NoKVCall ==
    [op |-> "new", key |-> <<>>, other |-> NoBytes, offset |-> 0, limit |-> NoLimit,
     value |-> <<>>, before |-> EmptyTable, raised |-> "ok",
     val |-> NoBytes, rows |-> <<>>, n |-> 0,
     prev |-> [op |-> "", key |-> <<>>, value |-> <<>>]]

InitKV == db_rows = EmptyTable /\ db_last = NoKVCall

\* the loop of set calls that fills the table
KVFill(items) ==
    /\ db_rows' = SetAll(db_rows, SortAsc(DOMAIN items), items)
    /\ db_last' = KVCall("fill", <<>>, NoBytes, 0, NoLimit, <<>>, "ok", NoBytes, <<>>, 0)
    /\ UNCHANGED poolvars
    /\ UNCHANGED nsvars
    /\ UNCHANGED codecvars
    /\ UNCHANGED fnvars

\* set(txn, key, value)
KVSet(key, value) ==
    /\ db_rows' = set(db_rows, key, value)
    /\ db_last' = KVCall("set", key, NoBytes, 0, NoLimit, value, "ok", NoBytes, <<>>, 0)
    /\ UNCHANGED poolvars
    /\ UNCHANGED nsvars
    /\ UNCHANGED codecvars
    /\ UNCHANGED fnvars

\* query(txn, key, other, offset, limit); other is NoBytes for a point query
KVQuery(key, other, offset, limit) ==
    LET out == query(db_rows, key, other, offset, limit) IN
    /\ db_last' = KVCall("query", key, other, offset, limit, <<>>, "ok",
                         IF other = NoBytes THEN out ELSE NoBytes,
                         IF other = NoBytes THEN <<>> ELSE out, 0)
    /\ UNCHANGED db_rows
    /\ UNCHANGED poolvars
    /\ UNCHANGED nsvars
    /\ UNCHANGED codecvars
    /\ UNCHANGED fnvars

\* delete(txn, key): DELETE FROM kv_store WHERE key = ?
KVDelete(key) ==
    /\ db_rows' = delete(db_rows, key)
    /\ db_last' = KVCall("delete", key, NoBytes, 0, NoLimit, <<>>, "ok", NoBytes, <<>>,
                         delete_rowcount(db_rows, key))
    /\ UNCHANGED poolvars
    /\ UNCHANGED nsvars
    /\ UNCHANGED codecvars
    /\ UNCHANGED fnvars

\* delete(txn, key, other, offset, limit): DELETE FROM kv_store WHERE
\* key >= ? AND key < ? [LIMIT ? [OFFSET ?]], with no ORDER BY.  Without
\* LIMIT every row of the range goes.  With LIMIT the statement is a syntax
\* error on an SQLite built without SQLITE_ENABLE_UPDATE_DELETE_LIMIT; on
\* one built with it SQLite assembles the rows of the range in an arbitrary
\* order before it applies LIMIT and OFFSET, so any `Quota` of them may go.
KVDeleteRange(key, other, offset, limit) ==
    LET hit == Range(db_rows, key, other)
        plain == limit = NoLimit /\ offset = 0
        quota == Quota(Cardinality(hit), offset, limit)
    IN \/ /\ ~plain
          /\ db_last' = KVCall("delete_range", key, other, offset, limit, <<>>,
                               "OperationalError", NoBytes, <<>>, 0)
          /\ UNCHANGED db_rows
       \/ \E gone \in {S \in SUBSET hit : Cardinality(S) = quota} :
             /\ db_rows' = [k \in DOMAIN db_rows \ gone |-> db_rows[k]]
             /\ db_last' = KVCall("delete_range", key, other, offset, limit, <<>>,
                                  "ok", NoBytes, <<>>, Cardinality(gone))
    /\ UNCHANGED poolvars
    /\ UNCHANGED nsvars
    /\ UNCHANGED codecvars
    /\ UNCHANGED fnvars

\* count(txn, key, other, offset, limit)
KVCount(key, other, offset, limit) ==
    /\ db_last' = KVCall("count", key, other, offset, limit, <<>>, "ok", NoBytes, <<>>,
                         count(db_rows, key, other, offset, limit))
    /\ UNCHANGED db_rows
    /\ UNCHANGED poolvars
    /\ UNCHANGED nsvars
    /\ UNCHANGED codecvars
    /\ UNCHANGED fnvars

\* bytes(txn, key, other, offset, limit)
KVBytes(key, other, offset, limit) ==
    /\ db_last' = KVCall("bytes", key, other, offset, limit, <<>>, "ok", NoBytes, <<>>,
                         bytes(db_rows, key, other, offset, limit))
    /\ UNCHANGED db_rows
    /\ UNCHANGED poolvars
    /\ UNCHANGED nsvars
    /\ UNCHANGED codecvars
    /\ UNCHANGED fnvars

NextKV ==
    \/ db_last.op = "new" /\ \E items \in Tables : KVFill(items)
    \/ db_last.op = "new" /\
          \E ks \in {MaxKeySize, MaxKeySize + 1}, vs \in {1, MaxValueSize, MaxValueSize + 1} :
              KVSet(Blob(ks), Blob(vs))
    \/ db_last.op = "fill" /\ \E key \in Keys, value \in Values : KVSet(key, value)
    \/ db_last.op = "fill" /\ \E key \in Keys : KVDelete(key)
    \/ db_last.op \in {"fill", "set", "delete"} /\
          \E key \in Keys : KVQuery(key, NoBytes, 0, NoLimit)
    \/ db_last.op = "fill" /\
          \E key \in Ends, other \in Ends, offset \in Offsets, limit \in Limits :
              \/ KVQuery(key, other, offset, limit)
              \/ KVCount(key, other, offset, limit)
              \/ KVBytes(key, other, offset, limit)
              \/ KVDeleteRange(key, other, offset, limit)

(* from bounded sets.                                                      *)
(***************************************************************************)
\* the largest arity and the largest os.cpu_count()
MaxArity == 7
MaxCpuCount == 128

POOL_SIZE_DEFAULT == 4

\* os.cpu_count() returning None
NoCpuCount == 0

\* a default that is never below POOL_SIZE_DEFAULT
pool_size_default_floor(cpu_count) ==
    IF cpu_count * 2 > POOL_SIZE_DEFAULT THEN cpu_count * 2 ELSE POOL_SIZE_DEFAULT

\* os.cpu_count() * 2 if os.cpu_count() else POOL_SIZE_DEFAULT
pool_size_default(cpu_count) ==
    IF cpu_count # NoCpuCount THEN cpu_count * 2 ELSE POOL_SIZE_DEFAULT

NoFn == [op |-> "none", n |-> 0, arg |-> <<>>, out |-> <<>>, raised |-> "ok"]

InitFn == fn = NoFn

\* nstore_indices(n): the list, or the AssertionError of the coverage check
NstoreIndices(n) ==
    /\ fn' = [op |-> "nstore_indices", n |-> n, arg |-> <<>>,
              out |-> nstore_indices(n),
              raised |-> IF _nstore_indices_verify_coverage(nstore_indices(n), n)
                         THEN "ok" ELSE "AssertionError"]
    /\ UNCHANGED poolvars
    /\ UNCHANGED nsvars
    /\ UNCHANGED codecvars
    /\ UNCHANGED kvvars

\* pool_size_default() on a machine where os.cpu_count() is cpu_count
PoolSizeDefault(cpu_count) ==
    /\ fn' = [op |-> "pool_size_default", n |-> cpu_count, arg |-> <<>>,
              out |-> <<pool_size_default(cpu_count)>>, raised |-> "ok"]
    /\ UNCHANGED poolvars
    /\ UNCHANGED nsvars
    /\ UNCHANGED codecvars
    /\ UNCHANGED kvvars

\* one call from the start: the calls do not depend on one another
NextFn ==
    \/ fn = NoFn /\ \E n \in 1..MaxArity : NstoreIndices(n)
    \/ fn = NoFn /\ \E cpu_count \in {NoCpuCount} \cup 1..MaxCpuCount :
                      PoolSizeDefault(cpu_count)

(***************************************************************************)
(* SpecPattern: index selection and prefix extraction of nstore_query,     *)
(* nstore_count and nstore_bytes applied to every pattern of an arity.     *)
(***************************************************************************)
MaxPatternArity == 4

\* patterns of n elements: two constants and a variable at any position
PatternsOf(n) == [1..n -> {PyStr(<<97>>), PyInt(1), Variable(<<120>>)}]

\* index, subspace = _nstore_pattern_to_index(pattern, nstore.indices);
\* prefix_items = _nstore_pattern_to_prefix(pattern, index)
PatternToIndex(n, pattern) ==
    /\ LET ix == _nstore_pattern_to_index(pattern, nstore_indices(n)) IN
       fn' = [op |-> "pattern_to_index", n |-> n, arg |-> pattern,
              out |-> IF ix.found
                      THEN <<ix.index, _nstore_pattern_to_prefix(pattern, ix.index)>>
                      ELSE <<>>,
              raised |-> IF ix.found THEN "ok" ELSE "ValueError"]
    /\ UNCHANGED poolvars
    /\ UNCHANGED nsvars
    /\ UNCHANGED codecvars
    /\ UNCHANGED kvvars

NextPattern ==
    fn = NoFn /\ \E n \in 1..MaxPatternArity :
                    \E pattern \in PatternsOf(n) : PatternToIndex(n, pattern)

(***************************************************************************)
(* Spec: the worker pool.  The functions callers pass to apply().          *)
(***************************************************************************)
NumCallers == 2
MaxCalls == 2
\* new(db_path, pool_size=2), as the tests construct it
pool_size == 2

Callers == 1..NumCallers
Workers == 1..pool_size
NoCaller == 0

\* b"k", b"c" (the counter)
KeyK == <<107>>
KeyCounter == <<99>>

\* str(n).encode()
RECURSIVE StrEncode(_)
StrEncode(n) ==
    IF n < 10 THEN <<48 + n>> ELSE StrEncode(n \div 10) \o <<48 + (n % 10)>>

\* int(b.decode())
RECURSIVE IntDecode(_)
IntDecode(b) ==
    IF Len(b) = 1 THEN b[1] - 48
    ELSE IntDecode(SubSeq(b, 1, Len(b) - 1)) * 10 + (b[Len(b)] - 48)

\* a statement of a function body: a library call on `something`
Stmt(call, something, key, value) ==
    [call |-> call, something |-> something, key |-> key, value |-> value]

\* the value written by increment_counter: str(int(current) + 1).encode()
Incremented == <<-2>>

FuncNames == {"set", "query", "query_counter", "failing_transactional_function",
              "test_transactional_function", "increment_counter"}

\* a returned value that is an instance of Exception, e.g. ValueError("x")
ValueErrorInstance == <<-3>>

\* a transactional function that sets a key, reads it, deletes it and reads
\* it again (the calls of test_storage_db_transaction_nested_operations)
TxnFuncs == {"nested_operations"}

\* a function that ends by raising an exception that is not an instance of
\* Exception: def f(cnx): sys.exit(1)
ExitFuncs == {"exit"}

\* functions that make no library call: they return a value they build,
\* bytes or an exception object
PureFuncs == {"get_value", "get_exception"}

\* decorated: the function passed to apply is itself @transactional (or is
\* the library's set/query), so its body runs on the BonafideTxn; a plain
\* function hands the worker's BonafideCnx to every library call it makes
Program(f) ==
    IF f = "set" THEN
        [decorated |-> TRUE,
         body |-> <<Stmt("set", "BonafideTxn", KeyK, <<118>>)>>]
    ELSE IF f = "query" THEN
        [decorated |-> TRUE,
         body |-> <<Stmt("query", "BonafideTxn", KeyK, <<>>)>>]
    ELSE IF f = "query_counter" THEN
        [decorated |-> TRUE,
         body |-> <<Stmt("query", "BonafideTxn", KeyCounter, <<>>)>>]
    ELSE IF f = "failing_transactional_function" THEN
        [decorated |-> TRUE,
         body |-> <<Stmt("set", "BonafideTxn", KeyK, <<116>>),
                    Stmt("raise", "", <<>>, <<>>)>>]
    ELSE IF f = "test_transactional_function" THEN
        [decorated |-> TRUE,
         body |-> <<Stmt("set", "BonafideTxn", KeyK, <<117>>),
                    Stmt("query", "BonafideTxn", KeyK, <<>>)>>]
    ELSE IF f = "nested_operations" THEN
        [decorated |-> TRUE,
         body |-> <<Stmt("set", "BonafideTxn", KeyK, <<118>>),
                    Stmt("query", "BonafideTxn", KeyK, <<>>),
                    Stmt("delete", "BonafideTxn", KeyK, <<>>),
                    Stmt("query", "BonafideTxn", KeyK, <<>>)>>]
    ELSE IF f = "exit" THEN
        [decorated |-> FALSE,
         body |-> <<Stmt("exit", "", <<>>, <<>>)>>]
    ELSE IF f = "get_value" THEN
        [decorated |-> FALSE,
         body |-> <<Stmt("return", "", <<>>, <<118>>)>>]
    ELSE IF f = "get_exception" THEN
        [decorated |-> FALSE,
         body |-> <<Stmt("return", "", <<>>, ValueErrorInstance)>>]
    ELSE \* increment_counter
        [decorated |-> FALSE,
         body |-> <<Stmt("query", "BonafideCnx", KeyCounter, <<>>),
                    Stmt("set", "BonafideCnx", KeyCounter, Incremented)>>]

Writes(f) ==
    \E i \in 1..Len(Program(f).body) : Program(f).body[i].call \in {"set", "delete"}

NoTask == [task_id |-> 0, func |-> "", caller |-> NoCaller]
NoRead == [key |-> <<>>, val |-> <<>>, committed |-> <<>>]
\* a reply: (task_id, result) or (task_id, e); `task` is history, the task
\* the worker ran when it put the reply
NoReply == [task_id |-> 0, raised |-> "ok", value |-> NoBytes, task |-> NoTask]

\* a connection that reads the committed table only
View_committed(w) == kv_store

\* the table a connection reads: its open write transaction's image, or
\* the committed table
View(w) == IF conn[w].writer THEN conn[w].image ELSE kv_store

InitPool ==
    /\ worker_lock = NoCaller
    /\ worker_threads = 0
    /\ worker_queue = <<>>
    /\ result_queue = [c \in Callers |-> <<>>]
    /\ caller = [c \in Callers |->
                   [pc |-> "idle", func |-> "", readonly |-> FALSE, task_id |-> 0,
                    raised |-> "ok", value |-> NoBytes, late |-> FALSE,
                    reply |-> NoReply]]
    /\ worker = [w \in Workers |->
                   [pc |-> "off", task |-> NoTask, i |-> 0, current |-> NoBytes,
                    body_raised |-> "ok", raised |-> "ok",
                    before |-> EmptyTable, wrote |-> EmptyTable, read |-> NoRead]]
    /\ kv_store = EmptyTable
    /\ conn = [w \in Workers |->
                   [in_transaction |-> FALSE, writer |-> FALSE, image |-> EmptyTable]]
    /\ acquired = <<>>
    /\ failed = FALSE
    /\ calls = 0

Init == InitPool /\ InitNStore /\ InitCodec /\ InitKV /\ InitFn

(***************************************************************************)
(* apply(), one action per blocking or shared-state step                   *)
(***************************************************************************)
\* apply(bonafide, func, *args, readonly=...) is entered.  Callers are
\* interchangeable threads, so the threads make their first call in index
\* order: every behaviour is one of these up to renaming the threads.
Call(c, f, ro) ==
    /\ caller[c].pc \in {"idle", "done"}
    /\ \A d \in Callers : d < c => caller[d].pc # "idle"
    /\ calls < MaxCalls
    /\ calls' = calls + 1
    /\ caller' = [caller EXCEPT ![c] =
                     [pc |-> "start", func |-> f, readonly |-> ro, task_id |-> 0,
                      raised |-> "ok", value |-> NoBytes, late |-> failed,
                      reply |-> NoReply]]
    /\ UNCHANGED <<worker_lock, worker_threads, worker_queue, result_queue,
                   worker, kv_store, conn, acquired, failed>>
    /\ UNCHANGED nsvars
    /\ UNCHANGED codecvars
    /\ UNCHANGED kvvars
    /\ UNCHANGED fnvars

\* _start_worker_threads: `with bonafide.worker_lock:` is entered
StartWorkerThreadsEnter(c) ==
    /\ caller[c].pc = "start"
    /\ worker_lock = NoCaller
    /\ worker_lock' = c
    /\ caller' = [caller EXCEPT ![c].pc = "starting"]
    /\ UNCHANGED <<worker_threads, worker_queue, result_queue, worker,
                   kv_store, conn, acquired, failed, calls>>
    /\ UNCHANGED nsvars
    /\ UNCHANGED codecvars
    /\ UNCHANGED kvvars
    /\ UNCHANGED fnvars

\* a loop that starts num_threads threads whatever the list holds
ThreadsToStart_all(started, num_threads) == num_threads

\* range(num_threads - len(bonafide.worker_threads)), none when the list
\* already holds num_threads threads
ThreadsToStart(started, num_threads) ==
    IF started >= num_threads THEN 0 ELSE num_threads - started

\* _start_worker_threads: the body of the with block and its exit; a
\* started worker connects and waits on the queue
_start_worker_threads(c) ==
    /\ caller[c].pc = "starting"
    /\ worker_threads' = worker_threads + ThreadsToStart(worker_threads, pool_size)
    /\ worker' = [w \in Workers |->
                    IF w > worker_threads /\ w <= worker_threads'
                    THEN [worker[w] EXCEPT !.pc = "get"] ELSE worker[w]]
    /\ worker_lock' = NoCaller
    /\ caller' = [caller EXCEPT ![c].pc =
                     IF caller[c].readonly THEN "put" ELSE "acquire"]
    /\ UNCHANGED <<worker_queue, result_queue, kv_store, conn, acquired,
                   failed, calls>>
    /\ UNCHANGED nsvars
    /\ UNCHANGED codecvars
    /\ UNCHANGED kvvars
    /\ UNCHANGED fnvars

\* apply that enqueues a write without waiting for the lock to be free
AcquireNoWait(c) ==
    /\ caller[c].pc = "acquire"
    /\ worker_lock' = c
    /\ acquired' = Append(acquired, caller[c].func)
    /\ caller' = [caller EXCEPT ![c].pc = "put"]
    /\ UNCHANGED <<worker_threads, worker_queue, result_queue, worker,
                   kv_store, conn, failed, calls>>
    /\ UNCHANGED nsvars
    /\ UNCHANGED codecvars
    /\ UNCHANGED kvvars
    /\ UNCHANGED fnvars

\* if not readonly: bonafide.worker_lock.acquire()
Acquire(c) ==
    /\ caller[c].pc = "acquire"
    /\ worker_lock = NoCaller
    /\ worker_lock' = c
    /\ acquired' = Append(acquired, caller[c].func)
    /\ caller' = [caller EXCEPT ![c].pc = "put"]
    /\ UNCHANGED <<worker_threads, worker_queue, result_queue, worker,
                   kv_store, conn, failed, calls>>
    /\ UNCHANGED nsvars
    /\ UNCHANGED codecvars
    /\ UNCHANGED kvvars
    /\ UNCHANGED fnvars

\* ids of the result queues alive: id() is unique among live objects
LiveIds == {caller[c].task_id : c \in {d \in Callers : caller[d].pc = "wait"}}

\* result_queue = queue.Queue(); task_id = id(result_queue);
\* bonafide.worker_queue.put(...).  The code only compares ids for
\* equality, so the least id no live queue has stands for every value
\* id() can return; the id of a queue that died is given out again.
Put(c, id) ==
    /\ caller[c].pc = "put"
    /\ id \notin LiveIds
    /\ \A j \in Callers : j < id => j \in LiveIds
    /\ result_queue' = [result_queue EXCEPT ![c] = <<>>]
    /\ worker_queue' = Append(worker_queue,
                              [task_id |-> id, func |-> caller[c].func, caller |-> c])
    /\ caller' = [caller EXCEPT ![c].pc = "wait", ![c].task_id = id]
    /\ UNCHANGED <<worker_lock, worker_threads, worker, kv_store, conn,
                   acquired, failed, calls>>
    /\ UNCHANGED nsvars
    /\ UNCHANGED codecvars
    /\ UNCHANGED kvvars
    /\ UNCHANGED fnvars

\* result_queue.get(), the checks on the reply, and the finally block; the
\* local result_queue dies with the call, and its id with it
Reply(c) ==
    /\ caller[c].pc = "wait"
    /\ result_queue[c] # <<>>
    /\ LET reply == Head(result_queue[c])
           \* the slot holds the result or the exception: an exception
           \* object the function returned is raised like one it raised
           raised == IF reply.task_id # caller[c].task_id THEN "RuntimeError"
                     ELSE IF reply.raised # "ok" THEN reply.raised
                     ELSE IF reply.value = ValueErrorInstance THEN "ValueError"
                     ELSE "ok"
       IN /\ caller' = [caller EXCEPT ![c].pc = "done", ![c].raised = raised,
                           ![c].task_id = 0, ![c].reply = reply,
                           ![c].value = IF raised = "ok" THEN reply.value ELSE NoBytes]
          /\ failed' = (failed \/ raised # "ok")
    /\ result_queue' = [result_queue EXCEPT ![c] = Tail(result_queue[c])]
    /\ worker_lock' = IF caller[c].readonly THEN worker_lock ELSE NoCaller
    /\ UNCHANGED <<worker_threads, worker_queue, worker, kv_store, conn,
                   acquired, calls>>
    /\ UNCHANGED nsvars
    /\ UNCHANGED codecvars
    /\ UNCHANGED kvvars
    /\ UNCHANGED fnvars

(***************************************************************************)
(* _bonafide_worker, one action per statement that touches the database or *)
(* a queue                                                                 *)
(***************************************************************************)
\* task_id, func, args, kwargs, result_queue = bonafide.worker_queue.get().
\* Of the workers that wait on the queue with connections in the same
\* state any one may get the task and the outcomes differ by renaming the
\* workers only, so the first of them gets it.
WorkerGet(w) ==
    /\ worker[w].pc = "get"
    /\ worker_queue # <<>>
    /\ \A v \in Workers : (v < w /\ worker[v].pc = "get") => conn[v] # conn[w]
    /\ worker' = [worker EXCEPT ![w] =
                     [pc |-> "run", task |-> Head(worker_queue), i |-> 1,
                      current |-> NoBytes, body_raised |-> "ok", raised |-> "ok",
                      before |-> View(w), wrote |-> EmptyTable, read |-> NoRead]]
    /\ worker_queue' = Tail(worker_queue)
    /\ UNCHANGED <<worker_lock, worker_threads, result_queue, caller, kv_store,
                   conn, acquired, failed, calls>>
    /\ UNCHANGED nsvars
    /\ UNCHANGED codecvars
    /\ UNCHANGED kvvars
    /\ UNCHANGED fnvars

\* another connection holds the write lock of the database: its implicit
\* transaction (opened by an INSERT) was neither committed nor rolled back
Locked(w) == \E v \in Workers \ {w} : conn[v].writer

\* the value a set statement writes
Written(w, st) ==
    IF st.value # Incremented THEN st.value
    ELSE IF worker[w].current = NoBytes THEN StrEncode(1)
    ELSE StrEncode(IntDecode(worker[w].current) + 1)

\* what func(cnx, ...) hands the worker when its body is over: for a
\* transactional function the wrapper's commit / except / finally decide
Outcome(f, body_raised) ==
    IF Program(f).decorated THEN transactional("BonafideCnx", body_raised)
    ELSE body_raised

\* the worker after a statement of the body: at the next statement, or,
\* when the body returned or raised, holding the outcome to put
After(w, body_raised) ==
    LET f == worker[w].task.func
        over == body_raised # "ok" \/ worker[w].i >= Len(Program(f).body)
    IN [worker[w] EXCEPT !.i = @ + 1,
                         !.body_raised = body_raised,
                         !.pc = IF over THEN "put" ELSE "run",
                         !.raised = IF over THEN Outcome(f, body_raised) ELSE "ok"]

\* func(cnx, *args, **kwargs): the next statement of the function's body
WorkerStep(w) ==
    /\ worker[w].pc = "run"
    /\ LET st == Program(worker[w].task.func).body[worker[w].i] IN
       IF st.call = "raise" THEN
           /\ worker' = [worker EXCEPT ![w] = After(w, "ValueError")]
           /\ UNCHANGED conn
       ELSE IF st.call = "exit" THEN
           \* SystemExit passes `except Exception as e` and, after the
           \* finally block, the outer `except Exception`: the loop is
           \* left, the thread ends and nothing is put in result_queue
           /\ worker' = [worker EXCEPT ![w].pc = "dead",
                                        ![w].body_raised = "SystemExit"]
           /\ UNCHANGED conn
       ELSE IF st.call = "return" THEN
           /\ worker' = [worker EXCEPT ![w] =
                           [After(w, "ok") EXCEPT !.current = st.value]]
           /\ UNCHANGED conn
       ELSE IF st.call = "set" THEN
           \* sqlite3 opens the implicit transaction, then INSERT OR REPLACE
           \* runs, or fails on the write lock ("database is locked")
           IF Locked(w) THEN
               /\ conn' = [conn EXCEPT ![w].in_transaction = TRUE]
               /\ worker' = [worker EXCEPT ![w] =
                               After(w, transactional(st.something, "OperationalError"))]
           ELSE
               /\ conn' = [conn EXCEPT ![w] =
                             [in_transaction |-> TRUE, writer |-> TRUE,
                              image |-> set(View(w), st.key, Written(w, st))]]
               /\ worker' = [worker EXCEPT ![w] =
                               [After(w, transactional(st.something, "ok")) EXCEPT
                                   !.wrote = set(@, st.key, Written(w, st))]]
       ELSE IF st.call = "delete" THEN
           \* DELETE opens the implicit transaction like INSERT does
           IF Locked(w) THEN
               /\ conn' = [conn EXCEPT ![w].in_transaction = TRUE]
               /\ worker' = [worker EXCEPT ![w] =
                               After(w, transactional(st.something, "OperationalError"))]
           ELSE
               /\ conn' = [conn EXCEPT ![w] =
                             [in_transaction |-> TRUE, writer |-> TRUE,
                              image |-> delete(View(w), st.key)]]
               /\ worker' = [worker EXCEPT ![w] =
                               [After(w, transactional(st.something, "ok")) EXCEPT
                                   !.wrote = delete(@, st.key)]]
       ELSE \* query
           LET val == query(View(w), st.key, NoBytes, 0, NoLimit)
               raised == transactional(st.something, "ok")
           IN /\ worker' = [worker EXCEPT ![w] =
                               [After(w, raised) EXCEPT
                                   !.current = IF raised = "ok" THEN val ELSE @,
                                   !.read = [key |-> st.key, val |-> val,
                                             committed |-> query(kv_store, st.key,
                                                                 NoBytes, 0, NoLimit)]]]
              /\ UNCHANGED conn
    /\ UNCHANGED <<worker_lock, worker_threads, worker_queue, result_queue, caller,
                   kv_store, acquired, failed, calls>>
    /\ UNCHANGED nsvars
    /\ UNCHANGED codecvars
    /\ UNCHANGED kvvars
    /\ UNCHANGED fnvars

\* result_queue.put((task_id, result)) or result_queue.put((task_id, e)),
\* then worker_queue.task_done() and back to the top of the loop
WorkerPut(w) ==
    /\ worker[w].pc = "put"
    /\ result_queue' = [result_queue EXCEPT ![worker[w].task.caller] =
                           Append(@, [task_id |-> worker[w].task.task_id,
                                      raised |-> worker[w].raised,
                                      value |-> worker[w].current,
                                      task |-> worker[w].task])]
    /\ worker' = [worker EXCEPT ![w] =
                     [pc |-> "get", task |-> NoTask, i |-> 0, current |-> NoBytes,
                      body_raised |-> "ok", raised |-> "ok",
                      before |-> EmptyTable, wrote |-> EmptyTable, read |-> NoRead]]
    /\ UNCHANGED <<worker_lock, worker_threads, worker_queue, caller, kv_store,
                   conn, acquired, failed, calls>>
    /\ UNCHANGED nsvars
    /\ UNCHANGED codecvars
    /\ UNCHANGED kvvars
    /\ UNCHANGED fnvars

Next ==
    \/ \E c \in Callers, f \in FuncNames, ro \in BOOLEAN :
          (Writes(f) => ~ro) /\ Call(c, f, ro)
    \/ \E c \in Callers : StartWorkerThreadsEnter(c)
    \/ \E c \in Callers : _start_worker_threads(c)
    \/ \E c \in Callers : Acquire(c)
    \/ \E c \in Callers, id \in Callers : Put(c, id)
    \/ \E c \in Callers : Reply(c)
    \/ \E w \in Workers : WorkerGet(w)
    \/ \E w \in Workers : WorkerStep(w)
    \/ \E w \in Workers : WorkerPut(w)

Spec == Init /\ [][Next]_vars

\* apply() of functions that return without a library call, next to one
\* that writes
NextApply ==
    \/ \E c \in Callers, f \in PureFuncs \cup {"set"}, ro \in BOOLEAN :
          (Writes(f) => ~ro) /\ Call(c, f, ro)
    \/ \E c \in Callers : StartWorkerThreadsEnter(c)
    \/ \E c \in Callers : _start_worker_threads(c)
    \/ \E c \in Callers : Acquire(c)
    \/ \E c \in Callers, id \in Callers : Put(c, id)
    \/ \E c \in Callers : Reply(c)
    \/ \E w \in Workers : WorkerGet(w)
    \/ \E w \in Workers : WorkerStep(w)
    \/ \E w \in Workers : WorkerPut(w)

SpecApply == Init /\ [][NextApply]_vars

\* apply() of a transactional function that reads back what it wrote and
\* what it deleted, next to a plain write
NextTxn ==
    \/ \E c \in Callers, f \in TxnFuncs \cup {"set"} : Call(c, f, FALSE)
    \/ \E c \in Callers : StartWorkerThreadsEnter(c)
    \/ \E c \in Callers : _start_worker_threads(c)
    \/ \E c \in Callers : Acquire(c)
    \/ \E c \in Callers, id \in Callers : Put(c, id)
    \/ \E c \in Callers : Reply(c)
    \/ \E w \in Workers : WorkerGet(w)
    \/ \E w \in Workers : WorkerStep(w)
    \/ \E w \in Workers : WorkerPut(w)

SpecTxn == Init /\ [][NextTxn]_vars

\* apply() of functions that return, write, raise an Exception or raise
\* SystemExit, readonly or not
NextLive ==
    \/ \E c \in Callers, f \in PureFuncs \cup {"set"} \cup ExitFuncs, ro \in BOOLEAN :
          (Writes(f) => ~ro) /\ Call(c, f, ro)
    \/ \E c \in Callers : StartWorkerThreadsEnter(c)
    \/ \E c \in Callers : _start_worker_threads(c)
    \/ \E c \in Callers : Acquire(c)
    \/ \E c \in Callers, id \in Callers : Put(c, id)
    \/ \E c \in Callers : Reply(c)
    \/ \E w \in Workers : WorkerGet(w)
    \/ \E w \in Workers : WorkerStep(w)
    \/ \E w \in Workers : WorkerPut(w)

\* every thread that can take its next step is scheduled to take it; nothing
\* obliges a thread to call apply()
Fairness ==
    /\ \A c \in Callers :
           /\ WF_vars(StartWorkerThreadsEnter(c))
           /\ WF_vars(_start_worker_threads(c))
           /\ WF_vars(Acquire(c))
           /\ WF_vars(\E id \in Callers : Put(c, id))
           /\ WF_vars(Reply(c))
    /\ \A w \in Workers :
           /\ WF_vars(WorkerGet(w))
           /\ WF_vars(WorkerStep(w))
           /\ WF_vars(WorkerPut(w))

SpecLive == Init /\ [][NextLive]_vars /\ Fairness

\* threads that call apply() next to threads that register an nstore with
\* nstore() and look a name up (nstore_get, the first statement of
\* nstore_ask)
NextRegistry ==
    \/ \E c \in Callers, f \in {"set", "get_value"} :
          Call(c, f, FALSE)
    \/ \E c \in Callers : StartWorkerThreadsEnter(c)
    \/ \E c \in Callers : _start_worker_threads(c)
    \/ \E c \in Callers : Acquire(c)
    \/ \E c \in Callers, id \in Callers : Put(c, id)
    \/ \E c \in Callers : Reply(c)
    \/ \E w \in Workers : WorkerGet(w)
    \/ \E w \in Workers : WorkerStep(w)
    \/ \E w \in Workers : WorkerPut(w)
    \/ \E name \in Names : Nstore(name, Arity)
    \/ \E name \in Names :
          NstoreAsk("BonafideTxn", name, [i \in 1..Arity |-> PyStr(<<97>>)])

SpecRegistry == Init /\ [][NextRegistry]_vars

SpecCodec == Init /\ [][NextCodec]_vars

SpecFn == Init /\ [][NextFn]_vars

SpecKV == Init /\ [][NextKV]_vars

SpecPattern == Init /\ [][NextPattern]_vars

SpecArity == Init /\ [][NextArity]_vars

SpecDelete == Init /\ [][NextDelete]_vars

SpecNames == Init /\ [][NextNames]_vars

SpecNStore == Init /\ [][NextNStore]_vars

(***************************************************************************)
(* Properties of the worker pool (Spec)                                    *)
(***************************************************************************)
Get(table, key) == query(table, key, NoBytes, 0, NoLimit)

\* C1: a transactional function called with the raw connection commits its
\* writes when it returns normally; when it raises, its writes are rolled
\* back (the connection reads what it read before the call) and the same
\* exception reaches the caller of the function.
C1_CommitOrRollback ==
    \A w \in Workers :
        (worker[w].pc = "put" /\ Program(worker[w].task.func).decorated) =>
            IF worker[w].body_raised = "ok"
            THEN \A k \in DOMAIN worker[w].wrote :
                     Get(kv_store, k) = worker[w].wrote[k]
            ELSE /\ View(w) = worker[w].before
                 /\ worker[w].raised = worker[w].body_raised

\* what a function does to the table when it runs alone and its transaction
\* commits on return and rolls back on raise
RECURSIVE RunBody(_, _, _)
RunBody(table, body, current) ==
    IF body = <<>> THEN table
    ELSE IF Head(body).call = "set"
    THEN RunBody(set(table, Head(body).key,
                     IF Head(body).value # Incremented THEN Head(body).value
                     ELSE IF current = NoBytes THEN StrEncode(1)
                     ELSE StrEncode(IntDecode(current) + 1)),
                 Tail(body), current)
    ELSE RunBody(table, Tail(body), Get(table, Head(body).key))

Raises(f) == \E i \in 1..Len(Program(f).body) : Program(f).body[i].call = "raise"

RECURSIVE Sequential(_, _)
Sequential(table, funcs) ==
    IF funcs = <<>> THEN table
    ELSE Sequential(IF Raises(Head(funcs)) THEN table
                    ELSE RunBody(table, Program(Head(funcs)).body, NoBytes),
                    Tail(funcs))

Quiescent == \A c \in Callers : caller[c].pc \in {"idle", "done"}

\* C5: when every apply call has returned, the store is the one the write
\* functions produce when run one after another in the order the write
\* mutex was acquired.
C5_SerialWrites == Quiescent => kv_store = Sequential(EmptyTable, acquired)

Enqueued(c) == \E i \in 1..Len(worker_queue) : worker_queue[i].caller = c
Executing(c) ==
    \E w \in Workers : worker[w].pc \in {"run", "put"} /\ worker[w].task.caller = c
ActiveWriters ==
    {c \in Callers : ~caller[c].readonly /\ (Enqueued(c) \/ Executing(c))}

\* C6: at most one readonly=false apply has its task enqueued or executing,
\* and the caller of that task holds the write mutex.
C6_OneWriter ==
    /\ Cardinality(ActiveWriters) <= 1
    /\ \A c \in ActiveWriters : worker_lock = c

\* a write task is executing while another writer waits for the mutex
C6_Witness ==
    \E c, d \in Callers :
        /\ c # d /\ c \in ActiveWriters /\ Executing(c)
        /\ caller[d].pc = "acquire"

\* C7: a readonly=true apply never holds the write mutex and is never kept
\* waiting for it by a writer whose task is still enqueued or running.
C7_ReadonlyBypassesMutex ==
    \A c \in Callers :
        (caller[c].readonly /\ caller[c].pc \notin {"idle", "done"}) =>
            /\ worker_lock # c
            /\ ~(caller[c].pc = "start" /\ worker_lock \in ActiveWriters)

\* C8: a read sees the task's own write of the key or else the committed
\* value, never the write of a transaction that has not committed.
C8_ReadsCommitted ==
    \A w \in Workers :
        worker[w].read # NoRead =>
            worker[w].read.val =
                IF worker[w].read.key \in DOMAIN worker[w].wrote
                THEN worker[w].wrote[worker[w].read.key]
                ELSE worker[w].read.committed

\* C9: when a function run through apply has written and raises, the store
\* is as it was before the call: neither the committed table nor what the
\* worker's connection reads shows a write of it.
C9_FailedWritesInvisible ==
    \A w \in Workers :
        (worker[w].pc = "put" /\ worker[w].body_raised # "ok"
            /\ worker[w].wrote # EmptyTable) =>
                \A k \in DOMAIN worker[w].wrote :
                    Get(View(w), k) = Get(worker[w].before, k)

\* C10: after an apply call raised, the mutex is free of that caller, and
\* a later apply call of a function that does not raise returns normally.
C10_LaterApplyCompletes ==
    \A c \in Callers :
        caller[c].pc = "done" =>
            /\ worker_lock # c
            /\ (caller[c].late /\ ~Raises(caller[c].func)) => caller[c].raised = "ok"

\* C11: when the function returned normally, apply returns exactly the
\* value it returned, and the reply a caller receives is the one of the task
\* it enqueued ("Received result for wrong task" is never raised).
C11_ApplyReturnsValue ==
    \A c \in Callers :
        caller[c].pc = "done" =>
            /\ caller[c].raised # "RuntimeError"
            /\ caller[c].reply.task.caller = c
            /\ caller[c].reply.task.func = caller[c].func
            /\ caller[c].reply.raised = "ok" =>
                   /\ caller[c].raised = "ok"
                   /\ caller[c].value = caller[c].reply.value

\* the transactional functions whose body calls set and query on the
\* BonafideTxn it was handed
Nesting == {"test_transactional_function", "failing_transactional_function"}

\* C28: a transactional call made on the BonafideTxn of a running
\* transaction neither commits nor rolls back: while the outermost function
\* runs its writes are in the open transaction only; they are in the
\* committed table once the outermost call has returned, and they are
\* undone, all of them, once it has raised.
C28_NestedJoinsOuter ==
    \A w \in Workers :
        (worker[w].task.func \in Nesting /\ worker[w].wrote # EmptyTable) =>
            /\ worker[w].pc = "run" =>
                   /\ conn[w].in_transaction
                   /\ \A k \in DOMAIN worker[w].wrote :
                          Get(View(w), k) = worker[w].wrote[k]
            /\ (worker[w].pc = "put" /\ worker[w].body_raised = "ok") =>
                   \A k \in DOMAIN worker[w].wrote :
                       Get(kv_store, k) = worker[w].wrote[k]
            /\ (worker[w].pc = "put" /\ worker[w].body_raised # "ok") =>
                   /\ ~conn[w].in_transaction
                   /\ \A k \in DOMAIN worker[w].wrote :
                          Get(View(w), k) = Get(worker[w].before, k)

\* C38: the number of worker threads never exceeds pool_size; every thread
\* of the list runs a worker; from the moment a call has left
\* _start_worker_threads there are exactly pool_size of them, and no later
\* step changes their number.
C38_PoolSizeWorkers ==
    [][/\ worker_threads' <= pool_size
       /\ worker_threads' = Cardinality({w \in Workers : worker'[w].pc # "off"})
       /\ (\E c \in Callers : caller'[c].pc \notin {"idle", "start", "starting"}) =>
              worker_threads' = pool_size
       /\ worker_threads # 0 => worker_threads' = worker_threads]_vars

\* a second call runs _start_worker_threads, holding the lock, when the
\* workers are already started
C38_Witness ==
    /\ worker_threads = pool_size
    /\ \E c \in Callers : caller[c].pc = "starting" /\ worker_lock = c
    /\ \E d \in Callers : caller[d].pc \in {"wait", "done"}

\* C39: under fair scheduling every apply call that was entered is
\* eventually over, its caller holding the value or the exception: no
\* caller stays blocked on worker_lock or on result_queue.get().
C39_EveryCallReturns ==
    \A c \in Callers :
        (caller[c].pc \notin {"idle", "done"}) ~> (caller[c].pc = "done")

\* C35: a worker keeps one open connection across tasks: a transactional
\* call on it succeeds unless its body raises, a worker that takes its next
\* task finds the connection outside any transaction, and the task observes
\* the write of every set call that has completed.
C35_PersistentConnection ==
    /\ \A w \in Workers :
           (worker[w].pc = "put" /\ Program(worker[w].task.func).decorated) =>
               worker[w].raised = worker[w].body_raised
    /\ \A w \in Workers :
           (worker[w].pc = "run" /\ worker[w].i = 1) =>
               /\ ~conn[w].in_transaction
               /\ \A d \in Callers :
                      (caller[d].pc = "done" /\ caller[d].func = "set") =>
                          Get(worker[w].before, KeyK) # NoBytes

\* the worker runs nested_operations and the statements before statement i
\* of its body returned
Past(w, i) ==
    /\ worker[w].pc \in {"run", "put"}
    /\ worker[w].task.func \in TxnFuncs
    /\ worker[w].body_raised = "ok"
    /\ worker[w].i = i

\* C34: inside one transaction the point query that follows set returns the
\* value just set, and the point query that follows delete returns None,
\* while the committed table still holds what it held when the function
\* began.
C34_ReadYourWrites ==
    \A w \in Workers :
        /\ Past(w, 3) =>
               /\ worker[w].read.val = Program(worker[w].task.func).body[1].value
               /\ worker[w].current = worker[w].read.val
        /\ Past(w, 5) =>
               /\ worker[w].read.val = NoBytes
               /\ worker[w].current = NoBytes
        /\ (Past(w, 3) \/ Past(w, 5)) =>
               /\ conn[w].in_transaction
               /\ worker[w].read.committed = Get(kv_store, worker[w].read.key)

\* a worker read back its own uncommitted write: the committed table has no
\* row for the key
C34_Witness ==
    \E w \in Workers :
        /\ Past(w, 3)
        /\ worker[w].read.val = <<118>>
        /\ worker[w].read.committed = NoBytes
        /\ conn[w].in_transaction

\* C31: bonafide.worker_threads and bonafide.subspace change only in a step
\* taken while worker_lock is held, so the lock orders every registration
\* with every other access; a lookup of a registered name finds its nstore
\* and a lookup of an unregistered name raises KeyError.
C31_MutatedUnderLock ==
    [][/\ worker_threads' # worker_threads => worker_lock # NoCaller
       /\ subspace' # subspace => worker_lock # NoCaller
       /\ last'.op = "ask" =>
             (last'.raised = "KeyError" <=> last'.name \notin DOMAIN subspace)]_vars

(***************************************************************************)
(* Properties of nstore (SpecNStore)                                       *)
(***************************************************************************)
\* the keys of a tuple, one per subspace
KeysOf(ns, t) ==
    {NstoreKey(ns, i - 1, _nstore_permute(t, ns.indices[i])) :
        i \in 1..Len(ns.indices)}

\* C2: for every tuple of the relation's arity, the row with value 0x01
\* exists in every subspace or in none.
C2_AllSubspacesOrNone ==
    \A name \in DOMAIN subspace : \A t \in Tuples :
        \/ \A k \in KeysOf(subspace[name], t) : k \in DOMAIN rows /\ rows[k] = <<1>>
        \/ \A k \in KeysOf(subspace[name], t) : k \notin DOMAIN rows

\* a tuple was deleted while another one stays stored in every subspace
C2_Witness ==
    /\ last.op = "delete"
    /\ last.args[1] \notin population
    /\ \E t \in population :
           /\ t[1] = last.args[1][2] /\ t[2] = last.args[1][1] /\ t[1] # t[2]
           /\ \A name \in DOMAIN subspace :
                  \A k \in KeysOf(subspace[name], t) : k \in DOMAIN rows

C37_NamesIsolated ==
    [][(last'.op \in {"add", "delete"} /\ last'.name \in DOMAIN subspace) =>
          \A other \in DOMAIN subspace \ {last'.name} :
              /\ \A t \in Tuples :
                     nstore_ask(rows', subspace, other, t).b
                         = nstore_ask(rows, subspace, other, t).b
              /\ \A p \in Patterns :
                     /\ nstore_query(rows', subspace, other, <<p>>).bindings
                            = nstore_query(rows, subspace, other, <<p>>).bindings
                     /\ nstore_count(rows', subspace, other, p).n
                            = nstore_count(rows, subspace, other, p).n
                     /\ nstore_bytes(rows', subspace, other, p).n
                            = nstore_bytes(rows, subspace, other, p).n]_vars

\* a tuple was added to the relation "r" while the relation "r\x00" holds
\* the same tuple and no other
C37_Witness ==
    /\ last.op = "add" /\ last.raised = "ok" /\ last.name = <<114>>
    /\ DOMAIN subspace = NamePair
    /\ DOMAIN rows = KeysOf(subspace[<<114>>], last.args[1])
                         \cup KeysOf(subspace[<<114, 0>>], last.args[1])

\* C13: adding a tuple that is already stored leaves the rows, keys and
\* values, exactly as they were.
C13_AddIdempotent ==
    [][(last'.op = "add" /\ last'.args[1] \in population) => rows' = rows]_vars

\* a stored tuple was added again, next to another stored tuple
C13_Witness ==
    /\ last.op = "add" /\ last.raised = "ok"
    /\ last.args[1] \in last.before
    /\ Cardinality(population) = MaxTuples

Matches(pattern, t) ==
    \A i \in 1..Len(pattern) : isVariable(pattern[i]) \/ pattern[i] = t[i]

NamesOf(pattern) ==
    {pattern[i].s : i \in {j \in 1..Len(pattern) : isVariable(pattern[j])}}

\* the binding maps each variable name to the tuple's element at the
\* variable's position
Derives(binding, pattern, t) ==
    /\ DOMAIN binding = NamesOf(pattern)
    /\ \A i \in 1..Len(pattern) :
           isVariable(pattern[i]) => binding[pattern[i].s] = t[i]

DistinctVariables(pattern) ==
    \A i, j \in 1..Len(pattern) :
        (isVariable(pattern[i]) /\ isVariable(pattern[j]) /\ i # j)
            => pattern[i].s # pattern[j].s

\* C3: a query of one pattern returns one binding per stored tuple that
\* equals the pattern at every constant position, and no other binding.
C3_SinglePatternQuery ==
    (/\ last.op = "query" /\ last.raised = "ok" /\ Len(last.args) = 1
     /\ DistinctVariables(last.args[1])) =>
        LET pattern == last.args[1]
            matching == {t \in population : Matches(pattern, t)}
        IN /\ Len(last.bindings) = Cardinality(matching)
           /\ \A t \in matching :
                  \E i \in 1..Len(last.bindings) :
                      Derives(last.bindings[i], pattern, t)
           /\ \A i \in 1..Len(last.bindings) :
                  \E t \in matching : Derives(last.bindings[i], pattern, t)

\* the rows of the stored tuples that match the pattern, in the subspace
\* the pattern is scanned in
MatchingRows(ns, pattern) ==
    LET ix == _nstore_pattern_to_index(pattern, ns.indices) IN
    {NstoreKey(ns, ix.subspace, _nstore_permute(t, ix.index)) :
        t \in {u \in population : Matches(pattern, u)}}

\* C15: nstore_count is the number of stored tuples that equal the pattern
\* at every constant position, and nstore_bytes is the sum of key length
\* plus value length over the rows of exactly those tuples.
C15_CountAndBytes ==
    /\ (last.op = "count" /\ last.raised = "ok") =>
           last.n = Cardinality({t \in population : Matches(last.args[1], t)})
    /\ (last.op = "bytes" /\ last.raised = "ok") =>
           last.n = SumLen([i \in 1..Cardinality(MatchingRows(subspace[last.name],
                                                              last.args[1])) |->
                             LET k == SortAsc(MatchingRows(subspace[last.name],
                                                           last.args[1]))[i]
                             IN <<k, <<1>>>>])

\* the pattern with the binding substituted for its variables
Substitute(pattern, binding) ==
    [i \in 1..Len(pattern) |->
        IF isVariable(pattern[i]) THEN binding[pattern[i].s] ELSE pattern[i]]

AllNames(patterns) == UNION {NamesOf(patterns[j]) : j \in 1..Len(patterns)}

\* the bindings that satisfy every pattern: each pattern, substituted, is a
\* stored tuple
Solutions(patterns) ==
    {b \in [AllNames(patterns) -> Items] :
        \A j \in 1..Len(patterns) : Substitute(patterns[j], b) \in population}

\* C4: a query returns exactly the bindings that satisfy every pattern
\* simultaneously.
C4_ConjunctiveQuery ==
    (last.op = "query" /\ last.raised = "ok") =>
        {last.bindings[i] : i \in 1..Len(last.bindings)} = Solutions(last.args)

\* the call recorded in c names a registered relation and passes a tuple or
\* a pattern whose length is not the relation's arity
WrongSize(c) ==
    /\ c.op \in {"add", "delete", "ask", "query", "count", "bytes"}
    /\ c.name \in DOMAIN subspace
    /\ \E j \in 1..Len(c.args) : Len(c.args[j]) # subspace[c.name].n

\* C29: an nstore add, delete or ask with a tuple, and an nstore query,
\* count or bytes with a pattern, whose length differs from the arity
\* fails with an error (the AssertionError of the length check when it is
\* called inside a transaction) and writes or deletes no row.
C29_WrongSizeFails ==
    [][WrongSize(last') =>
          /\ last'.raised # "ok"
          /\ last'.something = "BonafideTxn" => last'.raised = "AssertionError"
          /\ rows' = rows]_vars

\* a tuple longer than the arity was added next to a stored tuple and the
\* call raised
C29_Witness ==
    /\ WrongSize(last) /\ last.op = "add" /\ last.something = "BonafideTxn"
    /\ Len(last.args[1]) > Arity
    /\ last.raised = "AssertionError"
    /\ population # {}

(***************************************************************************)
(* Properties of the codec (SpecCodec)                                     *)
(***************************************************************************)
\* C16: bytes_read(bytes_write(t)) = t, with the same number of elements.
C16_RoundTrip ==
    codec.op = "bytes_read" =>
        /\ codec.back = codec.t1
        /\ Len(codec.back) = Len(codec.t1)

\* a tuple of two elements that starts with a nested tuple holding a
\* string and None was written and read back
C16_Witness ==
    /\ codec.op = "bytes_read"
    /\ Len(codec.t1) = 2
    /\ codec.t1[1] = PyTuple(<<PyStr(<<97>>), PyNone>>)
    /\ codec.t1[2] = PyNone

\* the tag of a scalar: its place in the fixed tag order
TagOf(v) ==
    IF v.t = "none" THEN _BONAFIDE_BYTE_NULL
    ELSE IF v.t = "bytes" THEN _BONAFIDE_BYTE_BYTES
    ELSE IF v.t = "str" THEN _BONAFIDE_BYTE_STRING
    ELSE IF v.t = "tuple" THEN _BONAFIDE_BYTE_NESTED
    ELSE IF v.t = "int" THEN
        IF v.n = 0 THEN _BONAFIDE_BYTE_INT_ZERO
        ELSE IF v.n > 0 THEN _BONAFIDE_BYTE_INT_POS ELSE _BONAFIDE_BYTE_INT_NEG
    ELSE IF v = PyBool(TRUE) THEN _BONAFIDE_BYTE_TRUE ELSE _BONAFIDE_BYTE_FALSE

\* tuple order: component-wise, a component first by tag and then by the
\* order of its type (numeric, byte-wise for bytes and UTF-8 strings,
\* component-wise for nested tuples); a proper prefix sorts first
RECURSIVE TupleLess(_, _)
RECURSIVE ScalarLess(_, _)
TupleLess(x, y) ==
    IF y = <<>> THEN FALSE
    ELSE IF x = <<>> THEN TRUE
    ELSE IF Head(x) # Head(y) THEN ScalarLess(Head(x), Head(y))
    ELSE TupleLess(Tail(x), Tail(y))

ScalarLess(a, b) ==
    IF TagOf(a) # TagOf(b) THEN TagOf(a) < TagOf(b)
    ELSE IF a.t = "int" THEN a.n < b.n
    ELSE IF a.t \in {"bytes", "str"} THEN BytesLess(a.s, b.s)
    ELSE IF a.t = "tuple" THEN TupleLess(a.items, b.items)
    ELSE FALSE

IntegersFirst ==
    /\ codec.op = "bytes_write"
    /\ Len(codec.t1) >= 1 /\ codec.t1[1].t = "int"
    /\ Len(codec.t2) >= 1 /\ codec.t2[1].t = "int"
    /\ codec.t1[1].n # codec.t2[1].n

\* C18: integer encodings sort in numeric order, negatives below zero and
\* zero below positives; bytes_write((-1, "z")) < bytes_write((0, "a")).
C18_IntegersNumericOrder ==
    /\ IntegersFirst =>
           (BytesLess(codec.b1, codec.b2) <=> codec.t1[1].n < codec.t2[1].n)
    /\ codec.op = "bytes_write" =>
           BytesLess(bytes_write(<<PyInt(-1), PyStr(<<122>>)>>),
                     bytes_write(<<PyInt(0), PyStr(<<97>>)>>))

\* C19: bytes_write((False,)) < bytes_write((True,)), and both boolean
\* encodings sort after the encoding of every integer.
C19_TrueAfterFalse ==
    codec.op = "bytes_write" =>
        /\ (codec.t1 = <<PyBool(FALSE)>> /\ codec.t2 = <<PyBool(TRUE)>>) =>
               BytesLess(codec.b1, codec.b2)
        /\ (/\ Len(codec.t1) = 1 /\ codec.t1[1].t = "int"
            /\ Len(codec.t2) = 1 /\ codec.t2[1].t = "bool") =>
               BytesLess(codec.b1, codec.b2)

\* the byte strings bytes_next's result is compared with: one byte longer
\* than the longest argument
Universe == TuplesUpTo(ByteValues, MaxBytes + 1)

\* c is strictly greater than every byte string that starts with b
Above(c, b) == \A e \in Universe : IsPrefix(b, e) => BytesLess(e, c)

\* C20: bytes_next(b) is the least byte string strictly greater than every
\* byte string that starts with b, and it is None exactly when every byte
\* of b is 0xFF.
C20_BytesNextLeast ==
    codec.op = "bytes_next" =>
        /\ (codec.next = NoBytes) <=> (\A i \in 1..Len(codec.b1) : codec.b1[i] = 255)
        /\ codec.next # NoBytes =>
               /\ Above(codec.next, codec.b1)
               /\ \A c \in Universe : Above(c, codec.b1) => BytesLeq(codec.next, c)

\* the argument ends with 0xFF and the result is shorter than it
C20_Witness ==
    /\ codec.op = "bytes_next"
    /\ codec.b1[Len(codec.b1)] = 255
    /\ codec.next # NoBytes
    /\ Len(codec.next) < Len(codec.b1)

\* C33: the prefix range scan selects exactly the keys of the tuples that
\* extend the prefix: bytes_write(t) lies in the half-open range from
\* bytes_write(p) to bytes_next(bytes_write(p)) if and only if p is the
\* first len(p) components of t.
C33_PrefixScanExact ==
    codec.op = "bytes_write" =>
        LET key_start == codec.b1
            key_end == IF bytes_next(key_start) = NoBytes THEN key_start \o <<0>>
                       ELSE bytes_next(key_start)
        IN (BytesLeq(key_start, codec.b2) /\ BytesLess(codec.b2, key_end))
               <=> IsPrefix(codec.t1, codec.t2)

(***************************************************************************)
(* Properties of nstore_indices and pool_size_default (SpecFn)             *)
(***************************************************************************)
\* C(n, k) by Pascal's rule
RECURSIVE Binomial(_, _)
Binomial(n, k) ==
    IF k = 0 \/ k = n THEN 1 ELSE Binomial(n - 1, k - 1) + Binomial(n - 1, k)

\* the first k elements of a list, as a set
FirstOf(index, k) == {index[j] : j \in 1..k}

\* C21: for every arity n in 1..7 nstore_indices(n) returns exactly
\* C(n, n div 2) lists, each a permutation of 0..n-1, every non-empty subset
\* of positions is the set of the first elements of one of them, and the
\* coverage assertion does not fail.
C21_IndicesCover ==
    fn.op = "nstore_indices" =>
        /\ fn.raised = "ok"
        /\ Len(fn.out) = Binomial(fn.n, fn.n \div 2)
        /\ \A i \in 1..Len(fn.out) :
               Len(fn.out[i]) = fn.n /\ FirstOf(fn.out[i], fn.n) = 0..(fn.n - 1)
        /\ \A S \in SUBSET (0..(fn.n - 1)) \ {{}} :
               \E i \in 1..Len(fn.out) : FirstOf(fn.out[i], Cardinality(S)) = S

\* the indices of the largest arity were computed
C21_Witness ==
    /\ fn.op = "nstore_indices" /\ fn.n = MaxArity
    /\ Len(fn.out) > MaxArity

\* C22: nstore_indices returns its permutations in lexicographic order,
\* and for n = 1, 2, 3, 4 exactly the lists of the documentation.
C22_IndicesSortedAndExact ==
    fn.op = "nstore_indices" =>
        /\ \A i, j \in 1..Len(fn.out) : i < j => ListLess(fn.out[i], fn.out[j])
        /\ fn.n = 1 => fn.out = << <<0>> >>
        /\ fn.n = 2 => fn.out = << <<0, 1>>, <<1, 0>> >>
        /\ fn.n = 3 => fn.out = << <<0, 1, 2>>, <<1, 2, 0>>, <<2, 0, 1>> >>
        /\ fn.n = 4 => fn.out = << <<0, 1, 2, 3>>, <<1, 2, 3, 0>>, <<2, 0, 3, 1>>,
                                   <<3, 0, 1, 2>>, <<3, 1, 2, 0>>, <<3, 2, 0, 1>> >>

\* the indices of arity 4 were computed: six lists, the last [3, 2, 0, 1]
C22_Witness ==
    /\ fn.op = "nstore_indices" /\ fn.n = 4
    /\ Len(fn.out) = 6 /\ fn.out[6] = <<3, 2, 0, 1>>

\* C40: the first permutation nstore_indices(n) returns is the identity
\* [0, 1, ..., n-1], so the key of subspace 0, which nstore_add writes and
\* nstore_ask looks up, holds the tuple in its original component order.
C40_FirstIndexIdentity ==
    fn.op = "nstore_indices" =>
        LET ns == [prefix |-> <<PyStr(<<114>>)>>, n |-> fn.n, indices |-> fn.out,
                   name |-> <<114>>]
            items == [i \in 1..fn.n |-> PyInt(i)]
        IN /\ fn.out[1] = [i \in 1..fn.n |-> i - 1]
           /\ _nstore_permute(items, ns.indices[1]) = items
           /\ NstoreKey(ns, 0, _nstore_permute(items, ns.indices[1]))
                  = bytes_write(ns.prefix \o <<PyInt(0)>> \o items)

\* the indices of arity 5 were computed: ten lists, the first the identity
C40_Witness ==
    /\ fn.op = "nstore_indices" /\ fn.n = 5
    /\ Len(fn.out) = 10 /\ fn.out[1] = <<0, 1, 2, 3, 4>>

\* C30: the default pool size is twice the CPU count and never less than
\* 4: max(4, 2 * c) for every CPU count c >= 1, and 4 when the CPU count is
\* unavailable.
C30_TwiceCpuCountFloorFour ==
    fn.op = "pool_size_default" =>
        /\ fn.out[1] >= 4
        /\ fn.n # NoCpuCount =>
               fn.out[1] = (IF 2 * fn.n > 4 THEN 2 * fn.n ELSE 4)
        /\ fn.n = NoCpuCount => fn.out[1] = 4

\* C30 (as the code has it): the default pool size is twice the CPU count
\* for every CPU count c >= 1, which is 2 on a machine with one CPU, and
\* it is 4 when the CPU count is unavailable.
C30_TwiceCpuCountOrFour ==
    fn.op = "pool_size_default" =>
        /\ fn.n # NoCpuCount => fn.out[1] = 2 * fn.n
        /\ fn.n = NoCpuCount => fn.out[1] = 4

\* the default was computed on a machine with one CPU and is below 4
C30_Witness ==
    /\ fn.op = "pool_size_default" /\ fn.n = 1
    /\ fn.out[1] < 4

(***************************************************************************)
(* Properties of index selection (SpecPattern)                             *)
(***************************************************************************)
\* the 0-based positions of the constants of a pattern
Constants(pattern) == {i - 1 : i \in {j \in 1..Len(pattern) : ~isVariable(pattern[j])}}

\* C32: for every pattern of the arity, whatever positions B hold constants,
\* index selection finds an index (no ValueError) whose first |B| elements
\* are exactly B, and the prefix tuple built along that index is the
\* pattern's constants at all positions of B, in the index's order.
C32_IndexMatchesConstants ==
    fn.op = "pattern_to_index" =>
        LET B == Constants(fn.arg)
            k == Cardinality(B)
        IN /\ fn.raised = "ok"
           /\ Len(fn.out[1]) = fn.n
           /\ FirstOf(fn.out[1], k) = B
           /\ fn.out[2] = [j \in 1..k |-> fn.arg[fn.out[1][j] + 1]]

\* a pattern of four elements whose constants are not at the front was
\* given an index other than the identity and a prefix of both constants
C32_Witness ==
    /\ fn.op = "pattern_to_index" /\ fn.n = 4 /\ fn.raised = "ok"
    /\ Constants(fn.arg) = {1, 3}
    /\ fn.out[1] # <<0, 1, 2, 3>>
    /\ Len(fn.out[2]) = 2

(***************************************************************************)
(* Properties of the key-value calls (SpecKV)                              *)
(***************************************************************************)
\* every row of the table but the row of key is as it was before the call
OthersKept(key) ==
    /\ DOMAIN db_rows \ {key} = DOMAIN db_last.before \ {key}
    /\ \A k \in DOMAIN db_rows \ {key} : db_rows[k] = db_last.before[k]

Between(table, start, end) ==
    IF BytesLess(start, end)
    THEN {k \in DOMAIN table : BytesLeq(start, k) /\ BytesLess(k, end)}
    ELSE IF BytesLess(end, start)
    THEN {k \in DOMAIN table : BytesLeq(end, k) /\ BytesLess(k, start)}
    ELSE {}

Drop(seq, k) == IF k >= Len(seq) THEN <<>> ELSE SubSeq(seq, k + 1, Len(seq))
Take(seq, k) == IF k = NoLimit \/ k >= Len(seq) THEN seq ELSE SubSeq(seq, 1, k)

\* the rows of the scan, skipped and capped
Page(table, start, end, offset, limit) ==
    Take(Drop(query(table, start, end, 0, NoLimit), offset), limit)

C26_RangeDelete ==
    db_last.op = "delete_range" =>
        LET page == Page(db_last.before, db_last.key, db_last.other,
                         db_last.offset, db_last.limit)
            gone == {page[i][1] : i \in 1..Len(page)}
        IN /\ db_last.raised = "ok"
           /\ db_last.n = Len(page)
           /\ DOMAIN db_rows = DOMAIN db_last.before \ gone
           /\ \A k \in DOMAIN db_rows : db_rows[k] = db_last.before[k]

\* C27: set accepts a key of 1024 bytes and a value of 1 048 576 bytes, and
\* rejects a longer key or a longer value with an error, leaving the store
\* unchanged.
C27_SizeLimits ==
    db_last.op = "set" =>
        IF Len(db_last.key) <= MaxKeySize /\ Len(db_last.value) <= MaxValueSize
        THEN db_last.raised = "ok" /\ db_last.key \in DOMAIN db_rows
        ELSE db_last.raised # "ok" /\ db_rows = db_last.before

====
